---- MODULE Spec2Model ----
(***************************************************************************)
(* A model of the gai commit-message tools: the three script variants      *)
(* (src/gai/cli.py, git_ai.py, git_commit_ai.py), their interactive        *)
(* apply/edit/regenerate/quit loop and the text post-processing of         *)
(* src/gai/utils.py.                                                       *)
(*                                                                         *)
(* Text is modelled as a sequence of one-character strings, so that the    *)
(* regular expressions and str methods of the source are computed          *)
(* character by character.                                                 *)
(***************************************************************************)
EXTENDS Integers, Sequences, FiniteSets, TLC

----------------------------------------------------------------------------
(* Text helpers (Python str semantics)                                      *)

\* A TLA+ string as a sequence of its characters.
Chars(s) == [i \in 1..Len(s) |-> SubSeq(s, i, i)]

\* The characters of the model's alphabet that Python's \s and str.strip()
\* treat as whitespace.
WhitespaceChars == {" ", "\n", "\t"}

IsSpace(c) == c \in WhitespaceChars

\* s[i:].startswith(p), 1-based i.
StartsWithAt(s, i, p) ==
    /\ i + Len(p) - 1 <= Len(s)
    /\ SubSeq(s, i, i + Len(p) - 1) = p

\* s.startswith(p)
StartsWith(s, p) == StartsWithAt(s, 1, p)

\* str.strip(): drop the leading and the trailing whitespace.
Strip(s) ==
    LET keep == {i \in 1..Len(s) : ~IsSpace(s[i])}
    IN  IF keep = {} THEN <<>>
        ELSE LET lo == CHOOSE i \in keep : \A k \in keep : i <= k
                 hi == CHOOSE i \in keep : \A k \in keep : i >= k
             IN  SubSeq(s, lo, hi)

\* Python's None where a text is expected: a value no text equals (every
\* element of a text is one character).
None == <<"None">>

\* bool(s) of a str or None: None and "" are falsy.

Truthy(s) == s # None /\ s # <<>>

----------------------------------------------------------------------------
(* utils.clean_commit_message                                               *)

THINK_OPEN == Chars("<think>")
THINK_CLOSE == Chars("</think>")

\* The positions j >= from at which "</think>" starts.
ClosePositions(s, from) ==
    {j \in from..Len(s) : StartsWithAt(s, j, THINK_CLOSE)}

\* re.sub(r'<think>.*?</think>', '', s, flags=re.DOTALL) from position i on:
\* one left-to-right pass; at each position the shortest match is removed and
\* the scan resumes after it; the text already emitted is never rescanned.
RECURSIVE SubThinkFrom(_, _)
SubThinkFrom(s, i) ==
    IF i > Len(s) THEN <<>>
    ELSE LET closes == ClosePositions(s, i + Len(THINK_OPEN))
         IN  IF StartsWithAt(s, i, THINK_OPEN) /\ closes # {}
             THEN LET j == CHOOSE j \in closes : \A k \in closes : j <= k
                  IN  SubThinkFrom(s, j + Len(THINK_CLOSE))
             ELSE <<s[i]>> \o SubThinkFrom(s, i + 1)

RemoveThinkBlocks(s) == SubThinkFrom(s, 1)

\* The last index of the maximal whitespace run that starts at i.
RunEnd(s, i) ==
    CHOOSE e \in i..Len(s) :
        /\ \A k \in i..e : IsSpace(s[k])
        /\ (e = Len(s) \/ ~IsSpace(s[e + 1]))

\* re.sub(r'\n\s*\n\s*\n', '\n\n', s) from position i on: a match starts at a
\* newline whose whitespace run holds at least three newlines and (the
\* quantifiers being greedy) ends at the last newline of that run.
RECURSIVE SubBlankFrom(_, _)
SubBlankFrom(s, i) ==
    IF i > Len(s) THEN <<>>
    ELSE IF s[i] = "\n"
         THEN LET nls == {k \in i..RunEnd(s, i) : s[k] = "\n"}
              IN  IF Cardinality(nls) >= 3
                  THEN LET last == CHOOSE k \in nls : \A m \in nls : k >= m
                       IN  <<"\n", "\n">> \o SubBlankFrom(s, last + 1)
                  ELSE <<s[i]>> \o SubBlankFrom(s, i + 1)
         ELSE <<s[i]>> \o SubBlankFrom(s, i + 1)

CollapseBlankLines(s) == SubBlankFrom(s, 1)

\* Mutant: the final strip() is left out.
clean_commit_message_unstripped(message) ==
    CollapseBlankLines(RemoveThinkBlocks(message))

\* clean_commit_message(message); message = None makes re.sub raise TypeError,
\* which the callers model before calling this operator.
clean_commit_message(message) ==
    Strip(CollapseBlankLines(RemoveThinkBlocks(message)))

----------------------------------------------------------------------------
(* More str methods                                                         *)

UpperLetters == Chars("ABCDEFGHIJKLMNOPQRSTUVWXYZ")
LowerLetters == Chars("abcdefghijklmnopqrstuvwxyz")
Digits == Chars("0123456789")

\* One character of str.lower().
LowerChar(c) ==
    IF \E i \in 1..Len(UpperLetters) : UpperLetters[i] = c
    THEN LowerLetters[CHOOSE i \in 1..Len(UpperLetters) : UpperLetters[i] = c]
    ELSE c

\* str.lower()
Lower(s) == [i \in 1..Len(s) |-> LowerChar(s[i])]

\* str.split('\n'): the pieces between the newlines; "" gives [""].
RECURSIVE SplitLines(_)
SplitLines(s) ==
    LET nls == {i \in 1..Len(s) : s[i] = "\n"}
    IN  IF nls = {} THEN <<s>>
        ELSE LET i == CHOOSE i \in nls : \A k \in nls : i <= k
             IN  <<SubSeq(s, 1, i - 1)>> \o SplitLines(SubSeq(s, i + 1, Len(s)))

\* '\n'.join(lines)
RECURSIVE JoinLines(_)
JoinLines(lines) ==
    IF lines = <<>> THEN <<>>
    ELSE IF Len(lines) = 1 THEN lines[1]
    ELSE lines[1] \o <<"\n">> \o JoinLines(Tail(lines))

----------------------------------------------------------------------------
(* utils.get_staged_diff (cli.py) and get_staged_diff of the two scripts    *)

\* Mutant: the 'index ' lines are not skipped.
IsMetadataLine_no_index(line) ==
    \/ StartsWith(line, Chars("@@"))
    \/ StartsWith(line, Chars("diff --git"))

\* The lines the filter of utils.get_staged_diff skips.
IsMetadataLine(line) ==
    \/ StartsWith(line, Chars("index "))
    \/ StartsWith(line, Chars("@@"))
    \/ StartsWith(line, Chars("diff --git"))

\* The text utils.get_staged_diff returns for git's standard output.
FilterDiff(stdout) ==
    JoinLines(SelectSeq(SplitLines(stdout), LAMBDA line : ~IsMetadataLine(line)))

\* What running git diff can do: print stdout and exit 0, be missing
\* (FileNotFoundError), or exit non-zero (CalledProcessError) with or without
\* output.
GitStdouts ==
    { Chars(""),
      Chars("@@ -1 +1 @@"),
      Chars("diff --git a/f b/f\n+x\n"),
      Chars("+token=abcd1234\n") }

GitDiffResults ==
    [kind : {"ok"}, stdout : GitStdouts, returncode : {0}, stderr : {Chars("")}]
    \cup [kind : {"not_found"}, stdout : {Chars("")}, returncode : {0},
          stderr : {Chars("")}]
    \cup [kind : {"error"}, stdout : {Chars(""), Chars("+x\n")},
          returncode : {1, 128}, stderr : {Chars(""), Chars("fatal")}]

\* Mutant: every non-zero exit status of git is taken for an empty diff.
get_staged_diff_lenient(which, r) ==
    IF r.kind = "ok"
    THEN [exit |-> FALSE,
          diff |-> IF which = "cli" THEN FilterDiff(r.stdout) ELSE r.stdout]
    ELSE IF r.kind = "not_found"
    THEN [exit |-> TRUE, diff |-> None]
    ELSE [exit |-> FALSE, diff |-> <<>>]

\* The outcome of get_staged_diff: a returned text, or sys.exit(1).
\* git_commit_ai.py has no special case for a silent exit status 1.
get_staged_diff(which, r) ==
    IF r.kind = "ok"
    THEN [exit |-> FALSE,
          diff |-> IF which = "cli" THEN FilterDiff(r.stdout) ELSE r.stdout]
    ELSE IF r.kind = "not_found"
    THEN [exit |-> TRUE, diff |-> None]
    ELSE IF which # "git_commit_ai" /\ r.returncode = 1
            /\ r.stdout = <<>> /\ r.stderr = <<>>
    THEN [exit |-> FALSE, diff |-> <<>>]
    ELSE [exit |-> TRUE, diff |-> None]

----------------------------------------------------------------------------
(* utils.detect_credentials                                                 *)

CredentialKeywords ==
    { Chars("password"), Chars("pwd"), Chars("secret"), Chars("api_key"),
      Chars("token"), Chars("private_key") }

\* [a-zA-Z0-9_/\-+=]
ValueChars ==
    {UpperLetters[i] : i \in 1..Len(UpperLetters)}
    \cup {LowerLetters[i] : i \in 1..Len(LowerLetters)}
    \cup {Digits[i] : i \in 1..Len(Digits)}
    \cup {"_", "/", "-", "+", "="}

MinValueLen == 8

\* The first index >= i of line that is not whitespace (Len + 1 if none).
SkipSpaces(line, i) ==
    CHOOSE j \in i..(Len(line) + 1) :
        /\ \A k \in i..(j - 1) : IsSpace(line[k])
        /\ (j = Len(line) + 1 \/ ~IsSpace(line[j]))

\* Whether the credential pattern matches line starting at position i
\* (low is the line in lower case: the pattern is case-insensitive):
\* keyword, \s*, '=', \s*, an optional quote, 8 or more value characters.
CredentialMatchAt(line, low, i) ==
    \E kw \in CredentialKeywords :
        /\ StartsWithAt(low, i, kw)
        /\ LET eq == SkipSpaces(line, i + Len(kw))
           IN  /\ eq <= Len(line)
               /\ line[eq] = "="
               /\ LET q == SkipSpaces(line, eq + 1)
                      v == IF q <= Len(line) /\ line[q] \in {"\"", "'"}
                           THEN q + 1 ELSE q
                  IN  /\ v + MinValueLen - 1 <= Len(line)
                      /\ \A k \in v..(v + MinValueLen - 1) : line[k] \in ValueChars

\* re.search(pattern, line)
CredentialSearch(line) ==
    LET low == Lower(line)
    IN  \E i \in 1..Len(line) : CredentialMatchAt(line, low, i)

\* Mutant: the '+++' file headers count as added lines.
AddedLines_with_headers(diff) ==
    LET plus == SelectSeq(SplitLines(diff), LAMBDA l : StartsWith(l, Chars("+")))
    IN  [i \in 1..Len(plus) |-> Tail(plus[i])]

\* The added lines of the diff, without their '+'.
AddedLines(diff) ==
    LET plus == SelectSeq(SplitLines(diff),
                    LAMBDA l : StartsWith(l, Chars("+")) /\ ~StartsWith(l, Chars("+++")))
    IN  [i \in 1..Len(plus) |-> Tail(plus[i])]

\* detect_credentials(diff): one warning (the stripped line) per matching line.
detect_credentials(diff) ==
    LET hits == SelectSeq(AddedLines(diff), CredentialSearch)
    IN  [i \in 1..Len(hits) |-> Strip(hits[i])]

----------------------------------------------------------------------------
(* The scripts: state                                                       *)

VARIABLES
    script,            \* which script runs: "cli", "git_ai" or "git_commit_ai"
    args,              \* the parsed command line
    env,               \* os.environ: CHAT_URL and API_KEY
    configFile,        \* git_ai.py: the model in ~/.own-cli/config.json
    pc,                \* the position in main
    exitCode,          \* the exit status once pc = "exited" (-1 before)
    stagedDiff,        \* staged_diff, None before it is read
    scanned,           \* whether detect_credentials has run
    provider,          \* the provider setup_provider returned
    suggestedMessage,  \* suggested_message
    displayed,         \* the message last printed as the suggestion
    lastChoice,        \* the lower-cased choice last read by the loop
    nInputs,           \* the number of input() calls so far
    nRegen,            \* the number of regenerate choices so far
    providerCalls,     \* the calls made to the provider, in order
    lastOutcome,       \* what the latest provider call did
    commits,           \* the messages git commit was invoked with, in order
    configWrites,      \* the writes to the .env / config file, in order
    edit,              \* the latest editor session: buffer opened, text saved
    printed,           \* how often each kind of message was printed
    setupInputs,       \* what setup_provider asked the user for, and the answers
    gitResult,         \* what the git diff run of get_staged_diff did
    credAnswer,        \* the latest answer to the credential question
    suggestedCommits,  \* multi-commit: the descriptions analyze_diff_for_commits gave
    multiChoice,       \* the lower-cased choice last read at the split menu
    splitIndex,        \* handle_split_commits: the suggestion being handled
    providerMethod,    \* what provider.generate_commit_message is bound to
    nAnalyze,          \* the number of analyze_diff_for_commits calls
    flow,              \* one generation: called from the "single" or "split" flow
    tpc,               \* one generation: the position of the main thread
    spinner,           \* the spinner thread of each caller: state and stop flag
    genOutcome,        \* what the provider call and the cleanup did
    genLeft,           \* how generate_commit_message was left, "no" before
    shown,             \* whether the suggested message has been printed
    cleanIn,           \* input of the clean_commit_message run
    cleanOut,          \* its output, None before the run
    diffIn,            \* the lines git diff printed: input of the diff functions
    diffOut,           \* what get_staged_diff makes of it, None before the run
    warnings,          \* what detect_credentials makes of it, None before
    oaEnv,             \* OpenAIProvider on its own: the environment
    oaProvider,        \* the state of the OpenAIProvider object
    oaRequests,        \* the chat-completion requests issued, in order
    oaCalls,           \* the generate_commit_message calls: diff and result
    oaPrinted,         \* the number of error messages it printed
    envFile,           \* the .env file: its text, None when it does not exist
    saves              \* the save operations applied to it, in order

\* The multi-commit workflow of cli.py.
multiVars ==
    << suggestedCommits, multiChoice, splitIndex, providerMethod, nAnalyze >>

\* The threads of one generation with its spinner.
spinnerVars == << flow, tpc, spinner, genOutcome, genLeft, shown >>

\* What the later steps of a run remember of the earlier ones, and the parts
\* of cli.py that are explored on their own.
flowVars == << gitResult, credAnswer, multiVars, spinnerVars >>

\* The run of a script up to and through the loop.
scriptVars ==
    << script, args, env, configFile, pc, exitCode, stagedDiff, scanned,
       provider, suggestedMessage, displayed, lastChoice, nInputs, nRegen,
       providerCalls, lastOutcome, commits, configWrites, edit, printed,
       setupInputs >>

mainVars == << scriptVars, flowVars >>

cleanVars == << cleanIn, cleanOut >>

diffVars == << diffIn, diffOut, warnings >>

openaiVars == << oaEnv, oaProvider, oaRequests, oaCalls, oaPrinted >>

envFileVars == << envFile, saves >>

\* The variables of the functions and objects that are also run on their own.
pureVars == << cleanVars, diffVars, openaiVars, envFileVars >>

vars == << mainVars, pureVars >>

\* The default model and endpoint of cli.py (git_ai.py has the same default
\* model), the model openai_client.py asks for, the default of
\* git_commit_ai.py's --model.
DEFAULT_MODEL == "llama3.2"
DEFAULT_ENDPOINT == "http://localhost:11434/api"
DEFAULT_OPENAI_MODEL == "gpt-3.5-turbo"
GIT_COMMIT_AI_DEFAULT_MODEL == "gemma:2b"

\* Bounds of the exploration.
MaxInputs == 3

Tags ==
    { "not_git_repo", "no_staged", "git_error", "cred_warning", "cred_retry",
      "aborted_security", "saved_pair", "saved_key", "api_key_required",
      "invalid_provider", "contacting", "provider_error", "suggested",
      "commit_ok", "commit_error", "editor_error", "aborted", "invalid_choice",
      "model_saved", "config_error", "traceback", "no_splits",
      "suggested_splits", "split_message" }

\* print(...) of a message of kind tag.
Say(p, tag) == [p EXCEPT ![tag] = @ + 1]

NoProvider == [name |-> "none", model |-> "", endpoint |-> ""]
NoEdit == [buffer |-> None, saved |-> None]
NoOutcome == [kind |-> "no_call", text |-> None]
NoGitRun ==
    [kind |-> "not_run", stdout |-> <<>>, returncode |-> 0, stderr |-> <<>>]
NoSetupInputs ==
    [askedEndpoint |-> FALSE, endpoint |-> "", askedKey |-> FALSE, key |-> <<>>]

\* sys.exit(code); an uncaught exception ends the interpreter with status 1
\* after printing a traceback.
Exit(code) == pc' = "exited" /\ exitCode' = code

Crash(p) == Exit(1) /\ printed' = Say(p, "traceback")

----------------------------------------------------------------------------
(* Inputs from outside the program                                          *)

\* What a call of provider.generate_commit_message can do: return a text,
\* return None (OpenAIProvider prints the error and returns None), or raise.
\* For the two scripts the text is the "response" field of the JSON body and
\* raising is requests.exceptions.RequestException.
RawReplies ==
    { Chars("fix: y"),
      Chars("<think>x</think>\nfix: z\n\n\n\nb \n"),
      Chars("<think>x</think> \n"),
      Chars("") }

ProviderOutcomes ==
    [kind : {"reply"}, text : RawReplies]
    \cup [kind : {"returns_none", "raises"}, text : {None}]

\* What the user types at the apply/edit/regenerate/quit prompt.
ChoiceInputs ==
    { Chars("a"), Chars("A"), Chars("e"), Chars("r"), Chars("q"), Chars("x") }

\* What the editor leaves in COMMIT_EDITMSG: the buffer as it was ("keep"),
\* another text, or nothing because the editor (or git rev-parse) failed.
EditorTexts == { Chars(" fix: edited\n"), Chars(" \n") }

EditorOutcomes ==
    [kind : {"keep", "fails"}, text : {None}]
    \cup [kind : {"saves"}, text : EditorTexts]

\* git commit exits 0 or not.
CommitOutcomes == {"ok", "fails"}

\* What the user types when asked whether to go on despite the warnings.
CredAnswers == { Chars("y"), Chars(" Yes"), Chars("n"), Chars("NO "), Chars("maybe") }

\* What the user types when asked for the endpoint and for the API key.
EndpointInputs == { "", "http://input.endpoint" }

KeyInputs == { Chars(" sk-1 "), Chars("  ") }

----------------------------------------------------------------------------
(* Initial states                                                           *)

Scripts == { "cli", "git_ai", "git_commit_ai" }

\* The command lines explored; model = "" is "no model given" and
\* set_model = "" is "no --set-model".
ArgsOf(s) ==
    IF s = "cli"
    THEN [provider : {"ollama", "openai", "bogus"}, model : {"", "deepseek-r1:8b"},
          multi_commit : {FALSE}, oneline : BOOLEAN, set_model : {""}]
    ELSE IF s = "git_ai"
    THEN [provider : {"ollama"}, model : {"", "llama3"}, multi_commit : {FALSE},
          oneline : {FALSE}, set_model : {"", "mistral"}]
    ELSE [provider : {"ollama"}, model : {"", "llama3"}, multi_commit : {FALSE},
          oneline : {FALSE}, set_model : {""}]

\* The environment after load_dotenv; "" and <<>> are "not set".
EnvsOf(s, a) ==
    IF s = "cli" /\ a.provider = "ollama"
    THEN [CHAT_URL : {"", "http://env.endpoint"}, API_KEY : {<<>>}]
    ELSE IF s = "cli" /\ a.provider = "openai"
    THEN [CHAT_URL : {""}, API_KEY : {<<>>, Chars("sk-0")}]
    ELSE [CHAT_URL : {""}, API_KEY : {<<>>}]

\* git_ai.py's config file: missing, unreadable (open raises IOError), not
\* valid JSON, valid JSON that is not an object (such as []), or a JSON
\* object with or without a model key (model = "").
ConfigFilesOf(s) ==
    IF s = "git_ai"
    THEN [kind : {"missing", "unreadable", "invalid", "json_other"}, model : {""}]
         \cup [kind : {"json"}, model : {"", "phi3"}]
    ELSE [kind : {"missing"}, model : {""}]

\* The multi-commit workflow before run_multi_commit_workflow is called.
MultiIdle ==
    /\ suggestedCommits = <<>>
    /\ multiChoice = None
    /\ splitIndex = 0
    /\ providerMethod = "original"
    /\ nAnalyze = 0

\* The places of the two spinner threads a run can have: the one
\* handle_split_commits starts and the one generate_commit_message starts.
Slots == { "outer", "inner" }

NoThread ==
    [state |-> "unstarted", at |-> "test", frame |-> 0, passes |-> 0,
     stop |-> FALSE, late |-> FALSE, afterShown |-> FALSE]

\* No generation is followed thread by thread.
SpinnerIdle ==
    /\ flow = "none"
    /\ tpc = "idle"
    /\ spinner = [t \in Slots |-> NoThread]
    /\ genOutcome = "none"
    /\ genLeft = "no"
    /\ shown = FALSE

BaseIdle ==
    /\ pc = "start"
    /\ exitCode = -1
    /\ stagedDiff = None
    /\ scanned = FALSE
    /\ provider = NoProvider
    /\ suggestedMessage = None
    /\ displayed = None
    /\ lastChoice = None
    /\ nInputs = 0
    /\ nRegen = 0
    /\ providerCalls = <<>>
    /\ lastOutcome = NoOutcome
    /\ commits = <<>>
    /\ configWrites = <<>>
    /\ edit = NoEdit
    /\ printed = [t \in Tags |-> 0]
    /\ setupInputs = NoSetupInputs
    /\ gitResult = NoGitRun
    /\ credAnswer = None
    /\ MultiIdle

MainIdle == BaseIdle /\ SpinnerIdle

\* No script runs: the state of the scripts while a function or an object is
\* run on its own.
MainParked ==
    /\ script = "cli"
    /\ args = [provider |-> "ollama", model |-> "", multi_commit |-> FALSE,
               oneline |-> FALSE, set_model |-> ""]
    /\ env = [CHAT_URL |-> "", API_KEY |-> <<>>]
    /\ configFile = [kind |-> "missing", model |-> ""]
    /\ MainIdle

\* The functions and objects run on their own, before they are run.
CleanIdle == cleanIn = <<>> /\ cleanOut = None

NotScanned == << None >>

DiffIdle == diffIn = <<>> /\ diffOut = None /\ warnings = NotScanned

OpenAIIdle ==
    /\ oaEnv = [API_KEY |-> <<>>, OPENAI_API_KEY |-> <<>>]
    /\ oaProvider = [state |-> "unconstructed", api_key |-> <<>>]
    /\ oaRequests = <<>>
    /\ oaCalls = <<>>
    /\ oaPrinted = 0

EnvFileIdle == envFile = None /\ saves = <<>>

Init ==
    /\ script \in Scripts
    /\ args \in ArgsOf(script)
    /\ env \in EnvsOf(script, args)
    /\ configFile \in ConfigFilesOf(script)
    /\ MainIdle
    /\ CleanIdle
    /\ DiffIdle
    /\ OpenAIIdle
    /\ EnvFileIdle

----------------------------------------------------------------------------
(* main, up to the first provider call                                      *)

\* Mutant: the error is printed but the run goes on.
CliStart_continues ==
    /\ script = "cli"
    /\ pc = "start"
    /\ \E is_git_repository \in BOOLEAN :
          IF is_git_repository
          THEN pc' = "get_diff" /\ UNCHANGED << exitCode, printed >>
          ELSE /\ pc' = "get_diff"
               /\ printed' = Say(printed, "not_git_repo")
               /\ UNCHANGED exitCode
    /\ UNCHANGED << script, args, env, configFile, stagedDiff, scanned, provider,
                    suggestedMessage, displayed, lastChoice, nInputs, nRegen,
                    providerCalls, lastOutcome, commits, configWrites, edit,
                    setupInputs, flowVars, pureVars >>

\* cli.main: load_dotenv, is_git_repository, argparse.
CliStart ==
    /\ script = "cli"
    /\ pc = "start"
    /\ \E is_git_repository \in BOOLEAN :
          IF is_git_repository
          THEN pc' = "get_diff" /\ UNCHANGED << exitCode, printed >>
          ELSE Exit(1) /\ printed' = Say(printed, "not_git_repo")
    /\ UNCHANGED << script, args, env, configFile, stagedDiff, scanned, provider,
                    suggestedMessage, displayed, lastChoice, nInputs, nRegen,
                    providerCalls, lastOutcome, commits, configWrites, edit,
                    setupInputs, flowVars, pureVars >>

\* git_ai.get_config(): the model of the config file, or the default. For
\* JSON that is not an object the test "model" not in config or the
\* assignment config["model"] = ... raises TypeError (or main's config.get
\* raises AttributeError), which nothing catches.
get_config(file) ==
    IF file.kind = "json_other"
    THEN [raises |-> TRUE, model |-> ""]
    ELSE [raises |-> FALSE,
          model |-> IF file.kind = "json" /\ file.model # "" THEN file.model
                    ELSE DEFAULT_MODEL]

\* git_ai.main: get_config, argparse, --set-model (set_model_in_config may
\* fail with IOError), model_to_use.
GitAiStart ==
    /\ script = "git_ai"
    /\ pc = "start"
    /\ LET config == get_config(configFile)
       IN  IF config.raises
           THEN /\ Crash(printed)
                /\ UNCHANGED << configFile, configWrites, provider >>
           ELSE IF args.set_model # ""
           THEN \E written \in BOOLEAN :
                    IF written
                    THEN /\ configFile' = [kind |-> "json", model |-> args.set_model]
                         /\ configWrites' = Append(configWrites,
                                [op |-> "set_model", provider |-> "",
                                 model |-> args.set_model, key |-> <<>>])
                         /\ printed' = Say(printed, "model_saved")
                         /\ Exit(0)
                         /\ UNCHANGED provider
                    ELSE /\ printed' = Say(printed, "config_error")
                         /\ Exit(1)
                         /\ UNCHANGED << configFile, configWrites, provider >>
           ELSE /\ provider' = [name |-> "ollama",
                                model |-> IF args.model # "" THEN args.model
                                          ELSE config.model,
                                endpoint |-> "http://localhost:11434/api/generate"]
                /\ pc' = "get_diff"
                /\ UNCHANGED << configFile, configWrites, printed, exitCode >>
    /\ UNCHANGED << script, args, env, stagedDiff, scanned, suggestedMessage,
                    displayed, lastChoice, nInputs, nRegen, providerCalls,
                    lastOutcome, commits, edit, setupInputs, flowVars, pureVars >>

\* git_commit_ai.main: argparse.
GitCommitAiStart ==
    /\ script = "git_commit_ai"
    /\ pc = "start"
    /\ provider' = [name |-> "ollama",
                    model |-> IF args.model # "" THEN args.model
                              ELSE GIT_COMMIT_AI_DEFAULT_MODEL,
                    endpoint |-> "http://localhost:11434/api/generate"]
    /\ pc' = "get_diff"
    /\ UNCHANGED << script, args, env, configFile, exitCode, stagedDiff, scanned,
                    suggestedMessage, displayed, lastChoice, nInputs, nRegen,
                    providerCalls, lastOutcome, commits, configWrites, edit,
                    printed, setupInputs, flowVars, pureVars >>

\* Mutant: the emptiness test never succeeds.
no_staged_changes_never(diff) == FALSE

\* if not staged_diff:
no_staged_changes(diff) == ~Truthy(diff)

\* staged_diff = get_staged_diff(); if not staged_diff: print, sys.exit(0)
GetDiff ==
    /\ pc = "get_diff"
    /\ \E r \in GitDiffResults :
          LET o == get_staged_diff(script, r)
          IN  /\ gitResult' = r
              /\ IF o.exit
                 THEN /\ printed' = Say(printed, "git_error")
                      /\ Exit(1)
                      /\ UNCHANGED stagedDiff
                 ELSE /\ stagedDiff' = o.diff
                      /\ IF no_staged_changes(o.diff)
                         THEN printed' = Say(printed, "no_staged") /\ Exit(0)
                         ELSE /\ pc' = IF script = "cli" THEN "scan"
                                       ELSE "generate"
                              /\ UNCHANGED << printed, exitCode >>
    /\ UNCHANGED << script, args, env, configFile, scanned, provider,
                    suggestedMessage, displayed, lastChoice, nInputs, nRegen,
                    providerCalls, lastOutcome, commits, configWrites, edit,
                    setupInputs, credAnswer, multiVars, spinnerVars,
                    pureVars >>

\* cli.main: credential_warnings = detect_credentials(staged_diff); with
\* warnings, prompt_credential_warning prints them and asks.
Scan ==
    /\ script = "cli"
    /\ pc = "scan"
    /\ scanned' = TRUE
    /\ IF detect_credentials(stagedDiff) # <<>>
       THEN pc' = "cred_prompt" /\ printed' = Say(printed, "cred_warning")
       ELSE pc' = "setup" /\ UNCHANGED printed
    /\ UNCHANGED << script, args, env, configFile, exitCode, stagedDiff, provider,
                    suggestedMessage, displayed, lastChoice, nInputs, nRegen,
                    providerCalls, lastOutcome, commits, configWrites, edit,
                    setupInputs, flowVars, pureVars >>

\* Mutant: an answer that is neither yes nor no counts as yes.
CredPrompt_default_yes ==
    /\ pc = "cred_prompt"
    /\ nInputs < MaxInputs
    /\ \E typed \in CredAnswers :
          LET choice == Strip(Lower(typed))
          IN  /\ nInputs' = nInputs + 1
              /\ credAnswer' = typed
              /\ IF choice \in {Chars("n"), Chars("no")}
                 THEN printed' = Say(printed, "aborted_security") /\ Exit(0)
                 ELSE pc' = "setup" /\ UNCHANGED << printed, exitCode >>
    /\ UNCHANGED << script, args, env, configFile, stagedDiff, scanned, provider,
                    suggestedMessage, displayed, lastChoice, nRegen,
                    providerCalls, lastOutcome, commits, configWrites, edit,
                    setupInputs, gitResult, multiVars, spinnerVars,
                    pureVars >>

\* One round of the loop of prompt_credential_warning, and what main does
\* with its result.
CredPrompt ==
    /\ pc = "cred_prompt"
    /\ nInputs < MaxInputs
    /\ \E typed \in CredAnswers :
          LET choice == Strip(Lower(typed))
          IN  /\ nInputs' = nInputs + 1
              /\ credAnswer' = typed
              /\ IF choice \in {Chars("y"), Chars("yes")}
                 THEN pc' = "setup" /\ UNCHANGED << printed, exitCode >>
                 ELSE IF choice \in {Chars("n"), Chars("no")}
                 THEN printed' = Say(printed, "aborted_security") /\ Exit(0)
                 ELSE /\ printed' = Say(printed, "cred_retry")
                      /\ UNCHANGED << pc, exitCode >>
    /\ UNCHANGED << script, args, env, configFile, stagedDiff, scanned, provider,
                    suggestedMessage, displayed, lastChoice, nRegen,
                    providerCalls, lastOutcome, commits, configWrites, edit,
                    setupInputs, gitResult, multiVars, spinnerVars,
                    pureVars >>

----------------------------------------------------------------------------
(* cli.setup_provider                                                       *)

PairWrite(name, model) ==
    [op |-> "pair", provider |-> name, model |-> model, key |-> <<>>]

KeyWrite(key) ==
    [op |-> "key", provider |-> "", model |-> "", key |-> key]

\* Where main goes with the provider setup_provider returned.
AfterSetup == IF args.multi_commit THEN "multi" ELSE "generate"

\* Mutant: the user's answer is taken as it is, an empty one too.
endpoint_or_default_typed(typed) == typed

\* input(...) or DEFAULT_ENDPOINT
endpoint_or_default(typed) == IF typed # "" THEN typed ELSE DEFAULT_ENDPOINT

\* provider_name == "ollama": save the pair, take the endpoint from CHAT_URL
\* or ask for it, construct OllamaProvider.
SetupOllama ==
    /\ pc = "setup"
    /\ args.provider = "ollama"
    /\ LET model_to_use == IF args.model # "" THEN args.model ELSE DEFAULT_MODEL
       IN  /\ configWrites' = Append(configWrites, PairWrite("ollama", model_to_use))
           /\ printed' = Say(printed, "saved_pair")
           /\ IF env.CHAT_URL # ""
              THEN /\ provider' = [name |-> "ollama", model |-> model_to_use,
                                   endpoint |-> env.CHAT_URL]
                   /\ UNCHANGED << nInputs, setupInputs >>
              ELSE /\ nInputs < MaxInputs
                   /\ \E typed \in EndpointInputs :
                         /\ provider' = [name |-> "ollama", model |-> model_to_use,
                                         endpoint |-> endpoint_or_default(typed)]
                         /\ setupInputs' = [setupInputs EXCEPT
                                                !.askedEndpoint = TRUE,
                                                !.endpoint = typed]
                   /\ nInputs' = nInputs + 1
    /\ pc' = AfterSetup
    /\ UNCHANGED << script, args, env, configFile, exitCode, stagedDiff, scanned,
                    suggestedMessage, displayed, lastChoice, nRegen,
                    providerCalls, lastOutcome, commits, edit, flowVars, pureVars >>

\* OpenAIProvider.__init__(self) of openai_client.py takes no argument: a
\* call that passes model= raises TypeError before the body runs.
OpenAIProviderInit(passesModel) ==
    IF passesModel THEN "TypeError" ELSE "reads_OPENAI_API_KEY"

\* from gai.openai_client import DEFAULT_OPENAI_MODEL: openai_client.py
\* defines no such name, so the import raises ImportError.
ImportsDefaultOpenAIModel == FALSE

\* provider_name == "openai": import the default model, take the key from
\* API_KEY or ask for it (an empty answer exits), save the key, save the
\* pair, construct OpenAIProvider(model=...).
SetupOpenAI ==
    /\ pc = "setup"
    /\ args.provider = "openai"
    /\ IF ~ImportsDefaultOpenAIModel
       THEN /\ Crash(printed)
            /\ UNCHANGED << env, nInputs, configWrites, provider, setupInputs >>
       ELSE
       LET model_to_use == IF args.model # "" THEN args.model
                           ELSE DEFAULT_OPENAI_MODEL
           pair == PairWrite("openai", model_to_use)
           \* the part of the branch after the key is known
           Rest(p, writes) ==
               /\ configWrites' = Append(writes, pair)
               /\ IF OpenAIProviderInit(TRUE) = "TypeError"
                  THEN Crash(Say(p, "saved_pair")) /\ UNCHANGED provider
                  ELSE /\ provider' = [name |-> "openai", model |-> model_to_use,
                                       endpoint |-> ""]
                       /\ printed' = Say(p, "saved_pair")
                       /\ pc' = AfterSetup
                       /\ UNCHANGED exitCode
       IN  IF Truthy(env.API_KEY)
           THEN Rest(printed, configWrites)
                /\ UNCHANGED << env, nInputs, setupInputs >>
           ELSE /\ nInputs < MaxInputs
                /\ nInputs' = nInputs + 1
                /\ \E typed \in KeyInputs :
                      LET api_key == Strip(typed)
                      IN  /\ setupInputs' = [setupInputs EXCEPT
                                                !.askedKey = TRUE, !.key = typed]
                          /\ IF ~Truthy(api_key)
                             THEN /\ printed' = Say(printed, "api_key_required")
                                  /\ Exit(1)
                                  /\ UNCHANGED << env, configWrites, provider >>
                             ELSE /\ env' = [env EXCEPT !.API_KEY = api_key]
                                  /\ Rest(Say(printed, "saved_key"),
                                          Append(configWrites, KeyWrite(api_key)))
    /\ UNCHANGED << script, args, configFile, stagedDiff, scanned,
                    suggestedMessage, displayed, lastChoice, nRegen,
                    providerCalls, lastOutcome, commits, edit, flowVars, pureVars >>

\* Mutant: the pair is saved before the name is checked.
SetupInvalid_saves ==
    /\ pc = "setup"
    /\ args.provider \notin {"ollama", "openai"}
    /\ printed' = Say(printed, "invalid_provider")
    /\ configWrites' = Append(configWrites, PairWrite(args.provider, args.model))
    /\ Exit(1)
    /\ UNCHANGED << script, args, env, configFile, stagedDiff, scanned, provider,
                    suggestedMessage, displayed, lastChoice, nInputs, nRegen,
                    providerCalls, lastOutcome, commits, edit,
                    setupInputs, flowVars, pureVars >>

\* Any other provider name: print and sys.exit(1).
SetupInvalid ==
    /\ pc = "setup"
    /\ args.provider \notin {"ollama", "openai"}
    /\ printed' = Say(printed, "invalid_provider")
    /\ Exit(1)
    /\ UNCHANGED << script, args, env, configFile, stagedDiff, scanned, provider,
                    suggestedMessage, displayed, lastChoice, nInputs, nRegen,
                    providerCalls, lastOutcome, commits, configWrites, edit,
                    setupInputs, flowVars, pureVars >>

----------------------------------------------------------------------------
(* generate_commit_message                                                  *)

\* Mutant: a missing reply is handed on as the message.
cli_generate_commit_message_none(o) ==
    IF o.kind = "reply"
    THEN [kind |-> "returns", message |-> clean_commit_message(o.text)]
    ELSE IF o.kind = "returns_none"
    THEN [kind |-> "returns", message |-> None]
    ELSE [kind |-> "raises", message |-> None]

\* cli.generate_commit_message for what the provider call does: the cleaned
\* reply; a reply of None makes clean_commit_message raise TypeError and an
\* exception of the provider passes through the try/finally, so both leave
\* the function by an exception nothing catches.
cli_generate_commit_message(o) ==
    IF o.kind = "reply"
    THEN [kind |-> "returns", message |-> clean_commit_message(o.text)]
    ELSE [kind |-> "raises", message |-> None]

\* generate_commit_message of git_ai.py and git_commit_ai.py: the stripped
\* "response" field; a RequestException is printed and ends the run with
\* sys.exit(1).
script_generate_commit_message(o) ==
    IF o.kind = "reply"
    THEN [kind |-> "returns", message |-> Strip(o.text)]
    ELSE [kind |-> "exits", message |-> None]

\* What the provider of the running script can do.
OutcomesOf(s) ==
    IF s = "cli" THEN ProviderOutcomes
    ELSE {o \in ProviderOutcomes : o.kind # "returns_none"}

\* Mutant: the call is made with the current suggestion in place of the diff.
ProviderCall_message(oneline) ==
    [diff |-> suggestedMessage, oneline |-> oneline, model |-> provider.model]

\* The call as the provider sees it; handle_user_choice passes no oneline.
ProviderCall(oneline) ==
    [diff |-> stagedDiff, oneline |-> oneline, model |-> provider.model]

\* What a generate_commit_message call prints, the provider's own error
\* message included.
SayGenerate(p, o) ==
    IF script = "cli"
    THEN IF o.kind = "returns_none" THEN Say(p, "provider_error") ELSE p
    ELSE IF o.kind = "raises"
         THEN Say(Say(p, "contacting"), "provider_error")
         ELSE Say(p, "contacting")

\* A generate_commit_message call with the staged diff and what the caller
\* does with it: the message becomes suggested_message and the loop goes on
\* (or starts); otherwise the run ends.
Generate(p, oneline, o) ==
    LET g == IF script = "cli" THEN cli_generate_commit_message(o)
             ELSE script_generate_commit_message(o)
    IN  /\ providerCalls' = Append(providerCalls, ProviderCall(oneline))
        /\ lastOutcome' = o
        /\ IF g.kind = "returns"
           THEN /\ suggestedMessage' = g.message
                /\ pc' = "loop"
                /\ printed' = SayGenerate(p, o)
                /\ UNCHANGED exitCode
           ELSE IF g.kind = "raises"
           THEN Crash(SayGenerate(p, o)) /\ UNCHANGED suggestedMessage
           ELSE /\ Exit(1)
                /\ printed' = SayGenerate(p, o)
                /\ UNCHANGED suggestedMessage

\* main: suggested_message = generate_commit_message(...)
FirstGenerate ==
    /\ pc = "generate"
    /\ \E o \in OutcomesOf(script) : Generate(printed, args.oneline, o)
    /\ UNCHANGED << script, args, env, configFile, stagedDiff, scanned, provider,
                    displayed, lastChoice, nInputs, nRegen, commits,
                    configWrites, edit, setupInputs, flowVars, pureVars >>

----------------------------------------------------------------------------
(* The apply/edit/regenerate/quit loop: one action per round                *)

\* The head of a round: print the suggestion, read the choice, lower-case it.
ReadChoice(typed) ==
    /\ pc = "loop"
    /\ nInputs < MaxInputs
    /\ displayed' = suggestedMessage
    /\ nInputs' = nInputs + 1
    /\ lastChoice' = Lower(typed)

\* Mutant: after git commit the caller stays in the loop.
commit_stays(p, message, git) ==
    /\ commits' = Append(commits, message)
    /\ printed' = Say(p, IF git = "ok" THEN "commit_ok" ELSE "commit_error")
    /\ UNCHANGED << pc, exitCode >>

\* commit(message): git commit -m message; a failing git ends the run with
\* status 1, otherwise the caller leaves the loop and main returns.
commit(p, message, git) ==
    /\ commits' = Append(commits, message)
    /\ IF git = "ok"
       THEN printed' = Say(p, "commit_ok") /\ Exit(0)
       ELSE printed' = Say(p, "commit_error") /\ Exit(1)

\* Mutant: apply commits the message of the round before.
apply_message_stale == displayed

\* The message the apply branch commits.
apply_message == suggestedMessage

\* choice == 'a'
ChooseApply ==
    /\ \E typed \in ChoiceInputs :
          /\ Lower(typed) = Chars("a")
          /\ ReadChoice(typed)
    /\ \E git \in CommitOutcomes :
          commit(Say(printed, "suggested"), apply_message, git)
    /\ UNCHANGED << script, args, env, configFile, stagedDiff, scanned, provider,
                    suggestedMessage, nRegen, providerCalls, lastOutcome,
                    configWrites, edit, setupInputs, flowVars, pureVars >>

\* Mutant: the text read back from the file is not stripped.
edit_message_unstripped(message, o) ==
    IF o.kind = "fails"
    THEN [buffer |-> message, saved |-> None, result |-> None]
    ELSE LET saved == IF o.kind = "keep" THEN message ELSE o.text
         IN  [buffer |-> message, saved |-> saved, result |-> saved]

\* edit_message(message): the buffer written to COMMIT_EDITMSG, the text the
\* editor left and the value returned (None after an exception).
edit_message(message, o) ==
    IF o.kind = "fails"
    THEN [buffer |-> message, saved |-> None, result |-> None]
    ELSE LET saved == IF o.kind = "keep" THEN message ELSE o.text
         IN  [buffer |-> message, saved |-> saved, result |-> Strip(saved)]

\* choice == 'e': commit a non-empty edited message. Otherwise the two
\* scripts go round again, while cli.handle_user_choice falls off its end
\* and returns None, which main cannot unpack (TypeError).
ChooseEdit ==
    /\ \E typed \in ChoiceInputs :
          /\ Lower(typed) = Chars("e")
          /\ ReadChoice(typed)
    /\ \E o \in EditorOutcomes :
          LET e == edit_message(suggestedMessage, o)
              p == IF o.kind = "fails"
                   THEN Say(Say(printed, "suggested"), "editor_error")
                   ELSE Say(printed, "suggested")
          IN  /\ edit' = [buffer |-> e.buffer, saved |-> e.saved]
              /\ IF Truthy(e.result)
                 THEN \E git \in CommitOutcomes : commit(p, e.result, git)
                 ELSE /\ UNCHANGED commits
                      /\ IF script = "cli"
                         THEN Crash(p)
                         ELSE printed' = p /\ UNCHANGED << pc, exitCode >>
    /\ UNCHANGED << script, args, env, configFile, stagedDiff, scanned, provider,
                    suggestedMessage, nRegen, providerCalls, lastOutcome,
                    configWrites, setupInputs, flowVars, pureVars >>

\* choice == 'r'
ChooseRegenerate ==
    /\ \E typed \in ChoiceInputs :
          /\ Lower(typed) = Chars("r")
          /\ ReadChoice(typed)
    /\ nRegen' = nRegen + 1
    /\ \E o \in OutcomesOf(script) : Generate(Say(printed, "suggested"), FALSE, o)
    /\ UNCHANGED << script, args, env, configFile, stagedDiff, scanned, provider,
                    commits, configWrites, edit, setupInputs, flowVars, pureVars >>

\* Mutant: quit commits the suggestion before it leaves.
ChooseQuit_commits ==
    /\ \E typed \in ChoiceInputs :
          /\ Lower(typed) = Chars("q")
          /\ ReadChoice(typed)
    /\ printed' = Say(Say(printed, "suggested"), "aborted")
    /\ commits' = Append(commits, suggestedMessage)
    /\ Exit(0)
    /\ UNCHANGED << script, args, env, configFile, stagedDiff, scanned, provider,
                    suggestedMessage, nRegen, providerCalls, lastOutcome,
                    configWrites, edit, setupInputs, flowVars, pureVars >>

\* choice == 'q'
ChooseQuit ==
    /\ \E typed \in ChoiceInputs :
          /\ Lower(typed) = Chars("q")
          /\ ReadChoice(typed)
    /\ printed' = Say(Say(printed, "suggested"), "aborted")
    /\ Exit(0)
    /\ UNCHANGED << script, args, env, configFile, stagedDiff, scanned, provider,
                    suggestedMessage, nRegen, providerCalls, lastOutcome,
                    commits, configWrites, edit, setupInputs, flowVars, pureVars >>

ValidChoices == { Chars("a"), Chars("e"), Chars("r"), Chars("q") }

\* Mutant: an unknown choice is taken for quit.
ChooseInvalid_exits ==
    /\ \E typed \in ChoiceInputs :
          /\ Lower(typed) \notin ValidChoices
          /\ ReadChoice(typed)
    /\ printed' = Say(Say(printed, "suggested"), "invalid_choice")
    /\ Exit(0)
    /\ UNCHANGED << script, args, env, configFile, stagedDiff,
                    scanned, provider, suggestedMessage, nRegen, providerCalls,
                    lastOutcome, commits, configWrites, edit, setupInputs, flowVars, pureVars >>

\* any other choice
ChooseInvalid ==
    /\ \E typed \in ChoiceInputs :
          /\ Lower(typed) \notin ValidChoices
          /\ ReadChoice(typed)
    /\ printed' = Say(Say(printed, "suggested"), "invalid_choice")
    /\ UNCHANGED << script, args, env, configFile, pc, exitCode, stagedDiff,
                    scanned, provider, suggestedMessage, nRegen, providerCalls,
                    lastOutcome, commits, configWrites, edit, setupInputs, flowVars, pureVars >>

----------------------------------------------------------------------------
(* The specification of the scripts                                         *)

Next ==
    \/ CliStart
    \/ GitAiStart
    \/ GitCommitAiStart
    \/ GetDiff
    \/ Scan
    \/ CredPrompt
    \/ SetupOllama
    \/ SetupOpenAI
    \/ SetupInvalid
    \/ FirstGenerate
    \/ ChooseApply
    \/ ChooseEdit
    \/ ChooseRegenerate
    \/ ChooseQuit
    \/ ChooseInvalid

Spec == Init /\ [][Next]_vars

----------------------------------------------------------------------------
(* Properties of the scripts (checked under Spec)                           *)

InLoopRound == lastChoice # None

\* C1: every message passed to git commit is a non-empty string, whatever the
\* provider replied and whatever the user chose.
C1_CommitMessageNonEmpty ==
    \A i \in 1..Len(commits) : commits[i] # None /\ commits[i] # <<>>

\* The result generate_commit_message gave for the latest provider reply.
LatestGenerated ==
    IF script = "cli" THEN clean_commit_message(lastOutcome.text)
    ELSE Strip(lastOutcome.text)

\* C2: after the choice apply, exactly one commit has been invoked, with the
\* message displayed in that round, which is the result of the latest
\* generation; the loop has ended.
C2_ApplyCommitsDisplayed ==
    lastChoice = Chars("a") =>
        /\ commits = << displayed >>
        /\ displayed = LatestGenerated
        /\ pc = "exited"

C2_Witness ==
    /\ lastChoice = Chars("a")
    /\ nRegen = 1
    /\ printed["invalid_choice"] = 1
    /\ commits = << Chars("fix: z\n\nb") >>
    /\ script = "cli"

\* C3: every provider call is made with the staged diff read at the start;
\* there is one call for the initial suggestion and one per regenerate
\* choice, and in the loop the suggestion is the result of the latest call.
C3_OneCallPerRegenerate ==
    /\ \A i \in 1..Len(providerCalls) : providerCalls[i].diff = stagedDiff
    /\ IF lastOutcome = NoOutcome
       THEN providerCalls = <<>> /\ nRegen = 0
       ELSE Len(providerCalls) = 1 + nRegen
    /\ pc = "loop" => suggestedMessage = LatestGenerated

C3_Witness ==
    /\ nRegen = 2
    /\ Len(providerCalls) = 3
    /\ pc = "loop"
    /\ suggestedMessage = Chars("fix: y")
    /\ displayed = Chars("fix: z\n\nb")

\* C4: after the choice quit the run has ended with exit code 0, no commit
\* has been made and the provider was called only for the initial suggestion
\* and the regenerate choices before.
C4_QuitCommitsNothing ==
    lastChoice = Chars("q") =>
        /\ pc = "exited"
        /\ exitCode = 0
        /\ commits = <<>>
        /\ Len(providerCalls) = 1 + nRegen
        /\ printed["aborted"] = 1

C4_Witness ==
    /\ lastChoice = Chars("q")
    /\ nRegen = 1
    /\ pc = "exited"
    /\ script = "cli"

\* C5: with an empty staged diff the run has printed the notice and ended
\* with exit code 0; nothing was scanned, no provider was set up or called,
\* the configuration was not written and nothing was committed.
C5_EmptyDiffExits ==
    (stagedDiff # None /\ stagedDiff = <<>>) =>
        /\ pc = "exited"
        /\ exitCode = 0
        /\ printed["no_staged"] = 1
        /\ ~scanned
        /\ script = "cli" => provider = NoProvider
        /\ providerCalls = <<>>
        /\ configWrites = <<>>
        /\ commits = <<>>
        /\ nInputs = 0

C5_Witness ==
    /\ stagedDiff = <<>>
    /\ script = "cli"
    /\ pc = "exited"
    /\ printed["no_staged"] = 1

\* A step of the loop that reads a choice which is none of a, e, r, q.
InvalidChoiceStep ==
    /\ pc = "loop"
    /\ nInputs' = nInputs + 1
    /\ lastChoice' \notin ValidChoices

\* C6: an invalid choice leaves the run in the loop with the same suggestion
\* (the one just displayed), and makes no provider call, no commit and no
\* exit; it is answered with a message.
C6_InvalidChoiceReprompts ==
    [][ InvalidChoiceStep =>
            /\ pc' = "loop"
            /\ exitCode' = exitCode
            /\ suggestedMessage' = suggestedMessage
            /\ displayed' = suggestedMessage
            /\ providerCalls' = providerCalls
            /\ commits' = commits
            /\ printed'["invalid_choice"] = printed["invalid_choice"] + 1 ]_vars

C6_Witness ==
    /\ lastChoice = Chars("x")
    /\ pc = "loop"
    /\ printed["invalid_choice"] = 2
    /\ displayed = suggestedMessage

\* C7: after the choice edit with an editor that left a text which is not
\* empty once stripped, exactly one commit has been invoked, with the
\* stripped text, and the run has ended; the editor was opened on the
\* displayed message.
C7_EditCommitsEditedText ==
    (lastChoice = Chars("e") /\ edit.saved # None /\ Strip(edit.saved) # <<>>) =>
        /\ commits = << Strip(edit.saved) >>
        /\ pc = "exited"
        /\ edit.buffer = displayed

C7_Witness ==
    /\ lastChoice = Chars("e")
    /\ edit.saved = Chars(" fix: edited\n")
    /\ commits = << Chars("fix: edited") >>
    /\ displayed = Chars("fix: y")
    /\ edit.buffer = displayed
    /\ pc = "exited"

ProviderFailed == lastOutcome.kind \in {"returns_none", "raises"}

\* C8: after a failed provider call the failure has been printed and the run
\* has ended, or is back at the prompt with the message displayed before; no
\* commit has been made; and no round of the loop displays, and no commit
\* gets, a missing message.
C8_ProviderFailureIsFatal ==
    /\ ProviderFailed =>
          /\ printed["provider_error"] + printed["traceback"] >= 1
          /\ \/ pc = "exited"
             \/ pc = "loop" /\ suggestedMessage = displayed
          /\ commits = <<>>
    /\ pc = "loop" => suggestedMessage # None
    /\ InLoopRound => displayed # None
    /\ \A i \in 1..Len(commits) : commits[i] # None

C8_Witness ==
    /\ lastOutcome.kind = "returns_none"
    /\ script = "cli"
    /\ nRegen = 1
    /\ pc = "exited"
    /\ printed["provider_error"] = 1
    /\ displayed # None

----------------------------------------------------------------------------
(* clean_commit_message as a function of its input                          *)

MaxFrags == 5

\* The pieces the inputs are put together from: the two tags, two pieces of
\* text that are the halves of a tag, and two kinds of whitespace.
Fragments ==
    << THINK_OPEN, THINK_CLOSE, Chars("<th"), Chars("ink>"), Chars("\n"),
       Chars(" ") >>

RECURSIVE Concat(_)
Concat(fs) == IF fs = <<>> THEN <<>> ELSE Fragments[Head(fs)] \o Concat(Tail(fs))

CleanInputs ==
    { Concat(fs) : fs \in UNION {[1..k -> 1..Len(Fragments)] : k \in 0..MaxFrags} }

InitClean ==
    /\ MainParked
    /\ DiffIdle
    /\ OpenAIIdle
    /\ EnvFileIdle
    /\ cleanIn \in CleanInputs
    /\ cleanOut = None

\* message = clean_commit_message(raw)
RunClean ==
    /\ cleanOut = None
    /\ cleanOut' = clean_commit_message(cleanIn)
    /\ UNCHANGED << mainVars, cleanIn, diffVars, openaiVars, envFileVars >>

NextClean == RunClean

SpecClean == InitClean /\ [][NextClean]_vars

----------------------------------------------------------------------------
(* Properties of clean_commit_message (checked under SpecClean)             *)

\* s holds a <think>...</think> block: an opening tag with a closing tag
\* somewhere after it.
HasThinkBlock(s) ==
    \E i \in 1..Len(s) :
        /\ StartsWithAt(s, i, THINK_OPEN)
        /\ \E j \in (i + Len(THINK_OPEN))..Len(s) : StartsWithAt(s, j, THINK_CLOSE)

\* C9: the output of clean_commit_message holds no <think>...</think> block.
C9_OutputHasNoThinkBlock ==
    cleanOut # None => ~HasThinkBlock(cleanOut)

HasThinkTag(s) ==
    \E i \in 1..Len(s) :
        StartsWithAt(s, i, THINK_OPEN) \/ StartsWithAt(s, i, THINK_CLOSE)

NoSurroundingSpace(s) ==
    s = <<>> \/ (~IsSpace(s[1]) /\ ~IsSpace(s[Len(s)]))

NewlineCount(s) == Cardinality({k \in 1..Len(s) : s[k] = "\n"})

\* The whitespace between the consecutive non-whitespace characters of s,
\* from the non-whitespace character at position i on.
RECURSIVE Gaps(_, _)
Gaps(s, i) ==
    LET j == SkipSpaces(s, i + 1)
    IN  IF j > Len(s) THEN <<>>
        ELSE << SubSeq(s, i + 1, j - 1) >> \o Gaps(s, j)

InnerGaps(s) ==
    LET first == SkipSpaces(s, 1)
    IN  IF first > Len(s) THEN <<>> ELSE Gaps(s, first)

Letters(s) == SelectSeq(s, LAMBDA c : ~IsSpace(c))

\* C10: the output has no whitespace at its ends and no whitespace run with
\* three or more newlines; for an input without think tags the text is kept
\* and each gap between two non-whitespace characters is kept as it is, or,
\* when it holds three or more newlines, becomes a gap with exactly two (one
\* blank line); such an input without a long run and without whitespace at
\* its ends is returned unchanged.
C10_OutputIsTrimmedAndCollapsed ==
    cleanOut # None =>
        /\ NoSurroundingSpace(cleanOut)
        /\ LET gaps == InnerGaps(cleanOut)
           IN  \A k \in 1..Len(gaps) : NewlineCount(gaps[k]) <= 2
        /\ ~HasThinkTag(cleanIn) =>
               LET gin == InnerGaps(cleanIn)
                   gout == InnerGaps(cleanOut)
               IN  /\ Letters(cleanOut) = Letters(cleanIn)
                   /\ Len(gout) = Len(gin)
                   /\ \A k \in 1..Len(gin) :
                          IF NewlineCount(gin[k]) >= 3
                          THEN NewlineCount(gout[k]) = 2
                          ELSE gout[k] = gin[k]
                   /\ ( /\ NoSurroundingSpace(cleanIn)
                        /\ \A k \in 1..Len(gin) : NewlineCount(gin[k]) <= 2 )
                      => cleanOut = cleanIn

C10_Witness ==
    /\ cleanIn = Chars("<th\n\n\nink>")
    /\ cleanOut = Chars("<th\n\nink>")

----------------------------------------------------------------------------
(* get_staged_diff's filter and detect_credentials as functions of the diff *)

MaxDiffLines == 3

\* The lines the diffs are put together from: added lines with and without
\* a credential assignment, a context line and a file header that hold one,
\* the three kinds of metadata lines, and the empty line.
DiffLineSamples ==
    << Chars("+API_KEY=sk-abcdef1234567890"),
       Chars("+def test_function():"),
       Chars(" password=abcdefgh"),
       Chars("+++ b/secret=abcdefgh"),
       Chars("@@ -1 +1 @@"),
       Chars("index 12..ab"),
       Chars("diff --git a/f b/f"),
       Chars(""),
       Chars("+ Token = 'abcd_123' "),
       Chars("+pwd=short12") >>

DiffInputs ==
    UNION { [1..k -> {DiffLineSamples[i] : i \in 1..Len(DiffLineSamples)}] :
            k \in 0..MaxDiffLines }

\* result.stdout for the lines git printed.
GitStdout(lines) ==
    [kind |-> "ok", stdout |-> JoinLines(lines), returncode |-> 0,
     stderr |-> Chars("")]

InitDiff ==
    /\ MainParked
    /\ CleanIdle
    /\ OpenAIIdle
    /\ EnvFileIdle
    /\ diffIn \in DiffInputs
    /\ diffOut = None
    /\ warnings = NotScanned

\* staged_diff = get_staged_diff()
RunGetStagedDiff ==
    /\ diffOut = None
    /\ diffOut' = get_staged_diff("cli", GitStdout(diffIn)).diff
    /\ UNCHANGED << mainVars, cleanVars, openaiVars, envFileVars, diffIn, warnings >>

\* credential_warnings = detect_credentials(diff)
RunDetectCredentials ==
    /\ warnings = NotScanned
    /\ warnings' = detect_credentials(JoinLines(diffIn))
    /\ UNCHANGED << mainVars, cleanVars, openaiVars, envFileVars, diffIn, diffOut >>

NextDiff == RunGetStagedDiff \/ RunDetectCredentials

SpecDiff == InitDiff /\ [][NextDiff]_vars

----------------------------------------------------------------------------
(* Properties of the diff functions (checked under SpecDiff)                *)

\* The credential pattern, read as a regular expression: somewhere in the
\* line there are a keyword (in any case), optional whitespace, '=', optional
\* whitespace, at most one quote, and 8 value characters.
MatchesCredentialPattern(line) ==
    LET low == Lower(line)
        n == Len(line)
        blank(from, to) == \A k \in from..to : line[k] \in {" ", "\t"}
        value(c) ==
            \/ c \in {"_", "/", "-", "+", "="}
            \/ \E m \in 1..26 : c \in {UpperLetters[m], LowerLetters[m]}
            \/ \E m \in 1..10 : c = Digits[m]
    IN  \E kw \in { Chars("password"), Chars("pwd"), Chars("secret"),
                     Chars("api_key"), Chars("token"), Chars("private_key") } :
          \E i \in 1..(n - Len(kw)) :
            /\ SubSeq(low, i, i + Len(kw) - 1) = kw
            /\ \E e \in (i + Len(kw))..n :
                  /\ line[e] = "="
                  /\ blank(i + Len(kw), e - 1)
                  /\ \E v \in (e + 1)..(n - 7) : \E q \in {0, 1} :
                        /\ e < v - q
                        /\ blank(e + 1, v - 1 - q)
                        /\ q = 1 => line[v - 1] \in {"\"", "'"}
                        /\ \A k \in v..(v + 7) : value(line[k])

\* The lines of a diff that add text: '+' lines that are not '+++' headers.
IsAddedLine(line) ==
    /\ Len(line) >= 1
    /\ line[1] = "+"
    /\ ~(Len(line) >= 3 /\ line[2] = "+" /\ line[3] = "+")

\* C11 (as stated): detect_credentials returns one warning per line of the
\* diff that matches the credential pattern, and none when no line matches.
C11_OneWarningPerMatchingLine ==
    warnings # NotScanned =>
        Len(warnings) =
            Cardinality({k \in 1..Len(diffIn) : MatchesCredentialPattern(diffIn[k])})

\* C11 (amended): detect_credentials returns one warning per added line of
\* the diff ('+' but not '+++') whose text after the '+' matches the
\* credential pattern, in order, each naming that text stripped; it returns
\* the empty list when no added line matches.
C11_OneWarningPerMatchingAddedLine ==
    warnings # NotScanned =>
        LET hits == SelectSeq(diffIn,
                        LAMBDA l : IsAddedLine(l) /\ MatchesCredentialPattern(Tail(l)))
        IN  /\ Len(warnings) = Len(hits)
            /\ \A k \in 1..Len(hits) : warnings[k] = Strip(Tail(hits[k]))

C11_Witness ==
    /\ diffIn = << Chars("+API_KEY=sk-abcdef1234567890"),
                   Chars("+def test_function():"),
                   Chars("+ Token = 'abcd_123' ") >>
    /\ warnings = << Chars("API_KEY=sk-abcdef1234567890"),
                     Chars("Token = 'abcd_123'") >>

\* The samples that are metadata lines, by their place in DiffLineSamples.
MetadataSamples == { DiffLineSamples[5], DiffLineSamples[6], DiffLineSamples[7] }

\* C20: get_staged_diff returns the git output without the lines starting
\* with 'index ', '@@' or 'diff --git' and with every other line kept,
\* unchanged and in order; an output without such a line is returned
\* unchanged; the result is empty only when no other line is non-empty.
C20_FilterRemovesExactlyMetadata ==
    diffOut # None =>
        LET kept == SelectSeq(diffIn, LAMBDA l : l \notin MetadataSamples)
        IN  /\ diffOut = JoinLines(kept)
            /\ kept = diffIn => diffOut = JoinLines(diffIn)
            /\ diffOut = <<>> => \A k \in 1..Len(kept) : kept[k] = <<>>

C20_Witness ==
    /\ diffIn = << Chars("index 12..ab"), Chars("+def test_function():") >>
    /\ diffOut = Chars("+def test_function():")

----------------------------------------------------------------------------
(* Properties of cli.main's start and of setup_provider (checked under Spec) *)

\* C12: when the directory is not a Git repository, main prints one error
\* message and exits with code 1 before anything else: no diff is read, no
\* input is requested, no provider is set up or called, no configuration is
\* written and nothing is committed.
C12_NotGitRepoExitsFirst ==
    printed["not_git_repo"] > 0 =>
        /\ pc = "exited"
        /\ exitCode = 1
        /\ printed = [t \in Tags |-> IF t = "not_git_repo" THEN 1 ELSE 0]
        /\ stagedDiff = None
        /\ ~scanned
        /\ nInputs = 0
        /\ provider = NoProvider
        /\ providerCalls = <<>>
        /\ configWrites = <<>>
        /\ commits = <<>>

C12_Witness ==
    /\ script = "cli"
    /\ printed["not_git_repo"] = 1
    /\ pc = "exited"
    /\ exitCode = 1

\* setup_provider was called and the call is over (it returned, exited or
\* raised): the scan is done, was not answered with no, and main is past it.
SetupRan ==
    /\ script = "cli"
    /\ scanned
    /\ pc \notin {"scan", "cred_prompt", "setup"}
    /\ printed["aborted_security"] = 0

PairWrites == SelectSeq(configWrites, LAMBDA w : w.op = "pair")

KeyWrites == SelectSeq(configWrites, LAMBDA w : w.op = "key")

\* C13: for provider ollama or openai (and a key at hand), setup_provider
\* saves the provider-model pair exactly once and constructs the provider,
\* both with the model of the command line or else the provider's default
\* (llama3.2 for ollama, gpt-3.5-turbo for openai).
C13_SetupSavesAndConstructsOnce ==
    (SetupRan /\ args.provider \in {"ollama", "openai"}
              /\ printed["api_key_required"] = 0) =>
        LET expected == IF args.model # "" THEN args.model
                        ELSE IF args.provider = "ollama" THEN "llama3.2"
                        ELSE "gpt-3.5-turbo"
        IN  /\ Len(PairWrites) = 1
            /\ PairWrites[1].provider = args.provider
            /\ PairWrites[1].model = expected
            /\ provider.name = args.provider
            /\ provider.model = expected

\* C14: for provider ollama the endpoint passed to the provider is CHAT_URL
\* when it is set and non-empty, and the user is then not asked; otherwise it
\* is what the user enters, and http://localhost:11434/api for an empty
\* answer.
C14_OllamaEndpoint ==
    (SetupRan /\ args.provider = "ollama") =>
        IF env.CHAT_URL # ""
        THEN /\ provider.endpoint = env.CHAT_URL
             /\ ~setupInputs.askedEndpoint
        ELSE /\ setupInputs.askedEndpoint
             /\ provider.endpoint =
                    IF setupInputs.endpoint # "" THEN setupInputs.endpoint
                    ELSE "http://localhost:11434/api"

C14_Witness ==
    /\ SetupRan
    /\ args.provider = "ollama"
    /\ env.CHAT_URL = ""
    /\ setupInputs.askedEndpoint
    /\ setupInputs.endpoint = ""
    /\ provider.endpoint = "http://localhost:11434/api"
    /\ pc = "loop"

\* C15: for provider openai without API_KEY in the environment,
\* setup_provider asks for a key; a non-empty stripped key is saved to the
\* config file exactly once, before the pair, and is set in the environment;
\* with API_KEY set the user is not asked and no key is saved.
C15_OpenAIKeyPrompt ==
    (SetupRan /\ args.provider = "openai") =>
        IF setupInputs.askedKey
        THEN Truthy(Strip(setupInputs.key)) =>
                /\ KeyWrites = << KeyWrite(Strip(setupInputs.key)) >>
                /\ configWrites[1].op = "key"
                /\ env.API_KEY = Strip(setupInputs.key)
        ELSE /\ Truthy(env.API_KEY)
             /\ KeyWrites = <<>>

----------------------------------------------------------------------------
(* openai_client.OpenAIProvider on its own                                  *)

MaxCalls == 2

\* OpenAIProvider.__init__(self): the key is read from OPENAI_API_KEY; without
\* it the constructor raises ValueError.
OpenAIProvider_init(environ) ==
    IF ~Truthy(environ.OPENAI_API_KEY)
    THEN [state |-> "ValueError", api_key |-> <<>>]
    ELSE [state |-> "constructed", api_key |-> environ.OPENAI_API_KEY]

\* system_prompt: a fixed text (its first sentence stands for it).
SYSTEM_PROMPT ==
    Chars("You are to act as an expert author of git commit messages.")

\* Mutant: the prompt is sent without the diff.
user_prompt_without_diff(diff) ==
    Chars("Generate a commit message for this git diff:\n\n")

\* user_prompt = f"Generate a commit message for this git diff:\n\n{diff}"
user_prompt(diff) ==
    Chars("Generate a commit message for this git diff:\n\n") \o diff

\* The arguments of self.client.chat.completions.create(...).
ChatRequest(diff) ==
    [model |-> "gpt-3.5-turbo",
     messages |-> << [role |-> "system", content |-> SYSTEM_PROMPT],
                     [role |-> "user", content |-> user_prompt(diff)] >>,
     stream |-> FALSE]

\* What the request can do: answer with a content, answer with a message
\* whose content is None, or raise.
ChatOutcomes ==
    [kind : {"reply"}, content : {Chars(" feat: y\n"), Chars("fix: z")}]
    \cup [kind : {"reply_without_content", "raises"}, content : {None}]

\* The value generate_commit_message returns: the stripped content; any
\* exception of the try block (None has no strip()) is printed and gives None.
openai_result(o) == IF o.kind = "reply" THEN Strip(o.content) ELSE None

\* The diffs the provider is called with.
OpenAIDiffs == { Chars("+x\n"), Chars("") }

OpenAIEnvs ==
    [API_KEY : {<<>>, Chars("key-a")}, OPENAI_API_KEY : {<<>>, Chars("key-o")}]

InitOpenAI ==
    /\ MainParked
    /\ CleanIdle
    /\ DiffIdle
    /\ EnvFileIdle
    /\ oaEnv \in OpenAIEnvs
    /\ oaProvider = [state |-> "unconstructed", api_key |-> <<>>]
    /\ oaRequests = <<>>
    /\ oaCalls = <<>>
    /\ oaPrinted = 0

\* provider = OpenAIProvider()
OpenAIConstruct ==
    /\ oaProvider.state = "unconstructed"
    /\ oaProvider' = OpenAIProvider_init(oaEnv)
    /\ UNCHANGED << mainVars, cleanVars, diffVars, envFileVars, oaEnv,
                    oaRequests, oaCalls, oaPrinted >>

\* provider.generate_commit_message(diff)
OpenAIGenerate ==
    /\ oaProvider.state = "constructed"
    /\ Len(oaCalls) < MaxCalls
    /\ \E diff \in OpenAIDiffs : \E o \in ChatOutcomes :
          /\ oaRequests' = Append(oaRequests, ChatRequest(diff))
          /\ oaCalls' = Append(oaCalls,
                            [diff |-> diff, outcome |-> o, result |-> openai_result(o)])
          /\ oaPrinted' = IF o.kind = "reply" THEN oaPrinted ELSE oaPrinted + 1
    /\ UNCHANGED << mainVars, cleanVars, diffVars, envFileVars, oaEnv, oaProvider >>

NextOpenAI == OpenAIConstruct \/ OpenAIGenerate

SpecOpenAI == InitOpenAI /\ [][NextOpenAI]_vars

----------------------------------------------------------------------------
(* Properties of OpenAIProvider (checked under SpecOpenAI)                  *)

\* C17: the key setup_provider checks and sets, API_KEY, is the key the
\* constructor reads: with API_KEY set to a non-empty value, constructing
\* OpenAIProvider succeeds.
C17_ConstructorReadsAPIKey ==
    (oaProvider.state # "unconstructed" /\ Truthy(oaEnv.API_KEY)) =>
        oaProvider.state = "constructed"

\* t is s without its surrounding whitespace.
IsStripOf(t, s) ==
    /\ t = <<>> \/ (~IsSpace(t[1]) /\ ~IsSpace(t[Len(t)]))
    /\ \E i \in 1..(Len(s) + 1) :
          /\ i + Len(t) - 1 <= Len(s)
          /\ SubSeq(s, i, i + Len(t) - 1) = t
          /\ \A k \in 1..(i - 1) : IsSpace(s[k])
          /\ \A k \in (i + Len(t))..Len(s) : IsSpace(s[k])

\* C18: generate_commit_message issues one chat-completion request per call:
\* a system message, then a user message that ends with the diff, not
\* streamed. It returns the reply's content stripped; when the request
\* raises it prints an error, returns None and issues no second request.
C18_OneRequestPerCall ==
    /\ Len(oaRequests) = Len(oaCalls)
    /\ \A k \in 1..Len(oaCalls) :
          LET r == oaRequests[k]
              c == oaCalls[k]
              u == r.messages[2].content
          IN  /\ ~r.stream
              /\ Len(r.messages) = 2
              /\ r.messages[1].role = "system"
              /\ r.messages[2].role = "user"
              /\ Len(u) >= Len(c.diff)
              /\ SubSeq(u, Len(u) - Len(c.diff) + 1, Len(u)) = c.diff
              /\ Len(u) > Len(c.diff)
              /\ c.outcome.kind = "reply" => IsStripOf(c.result, c.outcome.content)
              /\ c.outcome.kind = "raises" => c.result = None
    /\ oaPrinted >= Cardinality({k \in 1..Len(oaCalls) :
                                   oaCalls[k].outcome.kind = "raises"})

C18_Witness ==
    /\ Len(oaCalls) = 2
    /\ oaCalls[1].outcome.kind = "raises"
    /\ oaCalls[1].result = None
    /\ oaCalls[2].diff = Chars("+x\n")
    /\ oaCalls[2].outcome = [kind |-> "reply", content |-> Chars(" feat: y\n")]
    /\ oaCalls[2].result = Chars("feat: y")
    /\ Len(oaRequests) = 2
    /\ oaPrinted = 1

----------------------------------------------------------------------------
(* utils.save_provider_model_pair and utils.save_api_key_to_env on the       *)
(* .env file                                                                *)

MaxSaves == 2

\* line.startswith('KEY=') or line.startswith('#KEY=')
IsKeyLine(line, key) ==
    \/ StartsWith(line, key \o <<"=">>)
    \/ StartsWith(line, <<"#">> \o key \o <<"=">>)

\* f"KEY={value}"
KeyLine(key, value) == key \o <<"=">> \o value

\* env_content: the text of the file, "" when it does not exist.
ReadEnvFile(file) == IF file = None THEN <<>> ELSE file

\* Mutant: the file is written anew with the two lines only.
save_provider_model_pair_overwrites(file, provider_name, model) ==
    JoinLines(<< KeyLine(Chars("PROVIDER"), provider_name),
                 KeyLine(Chars("MODEL"), model) >>)

\* save_provider_model_pair(provider, model): the text written to the file.
\* Every PROVIDER / MODEL line, commented out or not, is rewritten; a key
\* without a line gets one appended.
save_provider_model_pair(file, provider_name, model) ==
    LET lines == SplitLines(ReadEnvFile(file))
        replaced ==
            [i \in 1..Len(lines) |->
                IF IsKeyLine(lines[i], Chars("PROVIDER"))
                THEN KeyLine(Chars("PROVIDER"), provider_name)
                ELSE IF IsKeyLine(lines[i], Chars("MODEL"))
                THEN KeyLine(Chars("MODEL"), model)
                ELSE lines[i]]
        provider_updated ==
            \E i \in 1..Len(lines) : IsKeyLine(lines[i], Chars("PROVIDER"))
        model_updated ==
            \E i \in 1..Len(lines) :
                /\ ~IsKeyLine(lines[i], Chars("PROVIDER"))
                /\ IsKeyLine(lines[i], Chars("MODEL"))
        withProvider ==
            IF provider_updated THEN replaced
            ELSE Append(replaced, KeyLine(Chars("PROVIDER"), provider_name))
        withModel ==
            IF model_updated THEN withProvider
            ELSE Append(withProvider, KeyLine(Chars("MODEL"), model))
    IN  JoinLines(withModel)

\* save_api_key_to_env(api_key): the text written to the file. The first
\* API_KEY line, commented out or not, is rewritten (break); without one the
\* line is appended.
save_api_key_to_env(file, api_key) ==
    LET lines == SplitLines(ReadEnvFile(file))
        hits == {i \in 1..Len(lines) : IsKeyLine(lines[i], Chars("API_KEY"))}
    IN  IF hits # {}
        THEN LET first == CHOOSE i \in hits : \A k \in hits : i <= k
             IN  JoinLines([lines EXCEPT ![first] = KeyLine(Chars("API_KEY"), api_key)])
        ELSE JoinLines(Append(lines, KeyLine(Chars("API_KEY"), api_key)))

\* The .env files the saves start from: none, an empty one, the files of
\* the tests, and one with commented-out keys.
EnvFiles ==
    { None,
      Chars(""),
      Chars("OTHER=value\n"),
      Chars("API_KEY=test\nPROVIDER=openai\nMODEL=gpt-4\nOTHER=value"),
      Chars("PROVIDER=test\nAPI_KEY=old_key\nOTHER=value"),
      Chars("#PROVIDER=ollama\n#API_KEY=\nCHAT_URL=http://x") }

SavedProviders == { Chars("ollama"), Chars("openai") }
SavedModels == { Chars("llama3.2"), Chars("gpt-4") }
SavedKeys == { Chars("sk-1"), Chars("sk-2") }

InitEnvFile ==
    /\ MainParked
    /\ CleanIdle
    /\ DiffIdle
    /\ OpenAIIdle
    /\ envFile \in EnvFiles
    /\ saves = <<>>

\* save_provider_model_pair(provider, model)
SavePair ==
    /\ Len(saves) < MaxSaves
    /\ \E pn \in SavedProviders : \E m \in SavedModels :
          /\ envFile' = save_provider_model_pair(envFile, pn, m)
          /\ saves' = Append(saves, [op |-> "pair", provider |-> pn, model |-> m,
                                     key |-> <<>>, before |-> envFile,
                                     after |-> envFile'])
    /\ UNCHANGED << mainVars, cleanVars, diffVars, openaiVars >>

\* save_api_key_to_env(api_key)
SaveKey ==
    /\ Len(saves) < MaxSaves
    /\ \E k \in SavedKeys :
          /\ envFile' = save_api_key_to_env(envFile, k)
          /\ saves' = Append(saves, [op |-> "key", provider |-> <<>>, model |-> <<>>,
                                     key |-> k, before |-> envFile,
                                     after |-> envFile'])
    /\ UNCHANGED << mainVars, cleanVars, diffVars, openaiVars >>

NextEnvFile == SavePair \/ SaveKey

SpecEnvFile == InitEnvFile /\ [][NextEnvFile]_vars

----------------------------------------------------------------------------
(* Properties of the save operations (checked under SpecEnvFile)            *)

\* The lines of a file; a file that does not exist has none.
FileLines(file) == IF file = None THEN <<>> ELSE SplitLines(file)

HasLine(file, line) ==
    \E i \in 1..Len(FileLines(file)) : FileLines(file)[i] = line

\* The keys a save operation writes.
KeysOf(save) ==
    IF save.op = "pair" THEN {Chars("PROVIDER"), Chars("MODEL")}
    ELSE {Chars("API_KEY")}

\* The lines of file that do not start with "KEY=" for a key the save writes.
OtherLines(file, save) ==
    SelectSeq(FileLines(file),
        LAMBDA l : \A key \in KeysOf(save) : ~StartsWith(l, key \o <<"=">>))

\* The same, a commented-out "#KEY=" line counting as a line of the key.
OtherLinesAndComments(file, save) ==
    SelectSeq(FileLines(file),
        LAMBDA l : \A key \in KeysOf(save) : ~IsKeyLine(l, key))

\* What a save leaves in the file: a line for each key it writes.
WritesItsLines(save) ==
    IF save.op = "pair"
    THEN /\ HasLine(save.after, Chars("PROVIDER=") \o save.provider)
         /\ HasLine(save.after, Chars("MODEL=") \o save.model)
    ELSE HasLine(save.after, Chars("API_KEY=") \o save.key)

\* The latest save of the kind op, 0 when there is none.
LastSave(op) ==
    LET ks == {k \in 1..Len(saves) : saves[k].op = op}
    IN  IF ks = {} THEN 0 ELSE CHOOSE k \in ks : \A j \in ks : k >= j

\* After any sequence of saves the file holds the last provider, model and
\* key written.
HoldsLastWritten ==
    /\ LastSave("pair") # 0 =>
          /\ HasLine(envFile, Chars("PROVIDER=") \o saves[LastSave("pair")].provider)
          /\ HasLine(envFile, Chars("MODEL=") \o saves[LastSave("pair")].model)
    /\ LastSave("key") # 0 =>
          HasLine(envFile, Chars("API_KEY=") \o saves[LastSave("key")].key)

\* C19 (as stated): a save writes a line for each of its keys and every
\* other line that was in the file stays, unchanged and in order; after any
\* sequence of saves the file holds the last provider, model and key.
C19_SavesChangeOnlyTheirKeys ==
    /\ \A k \in 1..Len(saves) :
          /\ WritesItsLines(saves[k])
          /\ saves[k].before # None =>
                OtherLines(saves[k].after, saves[k])
                    = OtherLines(saves[k].before, saves[k])
    /\ HoldsLastWritten

\* C19 (amended): the same, the lines of a key being those that start with
\* "KEY=" or with the commented-out "#KEY=": a save rewrites such lines of
\* its keys and keeps every line that is not one of them.
C19_SavesChangeOnlyTheirKeyLines ==
    /\ \A k \in 1..Len(saves) :
          /\ WritesItsLines(saves[k])
          /\ saves[k].before # None =>
                OtherLinesAndComments(saves[k].after, saves[k])
                    = OtherLinesAndComments(saves[k].before, saves[k])
    /\ HoldsLastWritten

C19_Witness ==
    /\ Len(saves) = 2
    /\ saves[1].before = Chars("PROVIDER=test\nAPI_KEY=old_key\nOTHER=value")
    /\ saves[1].op = "key"
    /\ saves[2].op = "pair"
    /\ envFile = Chars("PROVIDER=ollama\nAPI_KEY=sk-1\nOTHER=value\nMODEL=llama3.2")

----------------------------------------------------------------------------
(* Properties of the scripts, continued (checked under Spec)                *)

\* git diff --staged could not be run or exited with a non-zero status.
GitFailed == gitResult.kind \in {"not_found", "error"}

\* CalledProcessError with returncode 1 and nothing on stdout and stderr.
SilentStatus1 ==
    /\ gitResult.kind = "error"
    /\ gitResult.returncode = 1
    /\ gitResult.stdout = <<>>
    /\ gitResult.stderr = <<>>

\* The run went on with "" as the staged diff: "no staged changes", status 0.
TreatedAsEmptyDiff ==
    /\ stagedDiff = <<>>
    /\ pc = "exited"
    /\ exitCode = 0
    /\ printed["no_staged"] = 1
    /\ printed["git_error"] = 0

\* The run printed the error and ended with status 1 before anything else.
FatalDiffError ==
    /\ pc = "exited"
    /\ exitCode = 1
    /\ printed["git_error"] = 1
    /\ printed["no_staged"] = 0
    /\ stagedDiff = None
    /\ provider.name \in {"none", "ollama"}
    /\ providerCalls = <<>>
    /\ commits = <<>>
    /\ nInputs = 0

\* C21 as stated: a failing git diff ends the run with an error message and
\* status 1, without provider call or commit, except that in every script an
\* exit status 1 with empty stdout and stderr counts as an empty diff.
C21_DiffFailureIsFatal ==
    GitFailed => IF SilentStatus1 THEN TreatedAsEmptyDiff ELSE FatalDiffError

\* C21 (amended): a failing git diff ends the run with an error message and
\* status 1, without provider call or commit; only cli.py and git_ai.py take
\* an exit status 1 with empty stdout and stderr for an empty diff, while
\* git_commit_ai.py treats every non-zero exit status as an error.
C21_DiffFailureIsFatalPerScript ==
    GitFailed =>
        IF SilentStatus1 /\ script # "git_commit_ai"
        THEN TreatedAsEmptyDiff
        ELSE FatalDiffError

\* git_commit_ai.py met the silent exit status 1 and ended with the error.
C21_Witness ==
    /\ script = "git_commit_ai"
    /\ SilentStatus1
    /\ FatalDiffError

\* The config file holds a JSON object with a model key.
ConfigHasModel == configFile.kind = "json" /\ configFile.model # ""

\* C22: in git_ai.py, --set-model NAME saves NAME as the default model and
\* exits 0 without reading the diff, calling the model or committing, and
\* get_config then returns NAME; without --set-model the config file is left
\* as it is, and the model of the run is the one of --model, else the one of
\* the config file, else llama3.2 when the file is missing, unreadable, not
\* valid JSON or has no model key.
C22_SetModelAndGetConfig ==
    (script = "git_ai" /\ pc # "start") =>
        IF args.set_model # ""
        THEN /\ pc = "exited"
             /\ gitResult = NoGitRun
             /\ providerCalls = <<>>
             /\ commits = <<>>
             /\ \/ /\ exitCode = 0
                   /\ printed["model_saved"] = 1
                   /\ ~get_config(configFile).raises
                   /\ get_config(configFile).model = args.set_model
                \/ /\ exitCode = 1
                   /\ printed["config_error"] = 1
        ELSE /\ configWrites = <<>>
             /\ provider.model =
                    IF args.model # "" THEN args.model
                    ELSE IF ConfigHasModel THEN configFile.model
                    ELSE DEFAULT_MODEL

\* The scan of the staged diff returned warnings.
HasCredentialWarnings == scanned /\ detect_credentials(stagedDiff) # <<>>

\* Nothing was done with a provider, the config file or git commit.
NoProviderWork ==
    /\ provider = NoProvider
    /\ setupInputs = NoSetupInputs
    /\ providerCalls = <<>>
    /\ configWrites = <<>>
    /\ commits = <<>>

\* main went on to setup_provider (and possibly further).
WentOnToSetup ==
    /\ pc \in {"setup", "generate", "multi", "loop", "exited"}
    /\ printed["aborted_security"] = 0
    /\ pc = "exited" =>
           \/ configWrites # <<>>
           \/ printed["invalid_provider"] + printed["api_key_required"]
                  + printed["traceback"] > 0

\* The latest answer to the credential question, lower-cased and trimmed.
CredChoice == Strip(Lower(credAnswer))

\* C23: in cli.py nothing is done with a provider before the credential check
\* is over; with warnings the question is repeated until the answer is y/yes
\* or n/no; n/no prints the abort message and exits 0 with no provider setup
\* or call, no config write and no commit; y/yes, or a scan without
\* warnings, leads on to provider setup.
C23_CredentialCheckFirst ==
    script = "cli" =>
        /\ pc \in {"start", "get_diff", "scan", "cred_prompt"} => NoProviderWork
        /\ ~scanned => credAnswer = None
        /\ (scanned /\ ~HasCredentialWarnings) =>
               credAnswer = None /\ WentOnToSetup
        /\ HasCredentialWarnings =>
               /\ printed["cred_warning"] = 1
               /\ IF credAnswer = None
                  THEN pc = "cred_prompt"
                  ELSE IF CredChoice \in {Chars("y"), Chars("yes")}
                  THEN WentOnToSetup
                  ELSE IF CredChoice \in {Chars("n"), Chars("no")}
                  THEN /\ pc = "exited"
                       /\ exitCode = 0
                       /\ printed["aborted_security"] = 1
                       /\ NoProviderWork
                  ELSE pc = "cred_prompt" /\ printed["cred_retry"] > 0

\* The user first gave an answer that is neither, then declined with "NO ".
C23_Witness ==
    /\ script = "cli"
    /\ HasCredentialWarnings
    /\ printed["cred_retry"] = 1
    /\ credAnswer = Chars("NO ")
    /\ exitCode = 0
    /\ NoProviderWork

\* The latest round was an edit that failed or left an empty text.
EditFailedOrEmpty ==
    /\ lastChoice = Chars("e")
    /\ edit.buffer # None
    /\ \/ edit.saved = None
       \/ edit.saved # None /\ ~Truthy(Strip(edit.saved))

\* C26: after an edit that fails or yields an empty text no commit is made,
\* the run neither crashes nor exits, and the loop prompts again with the
\* message it displayed before.
C26_FailedEditReprompts ==
    EditFailedOrEmpty =>
        /\ commits = <<>>
        /\ pc = "loop"
        /\ exitCode = -1
        /\ printed["traceback"] = 0
        /\ suggestedMessage = displayed

\* C27: in a run of the single-message loop every step that commits is the
\* first to commit, commits once and ends the run: no prompt, provider call
\* or commit follows a commit.
C27_AtMostOneCommitAndLast ==
    [][commits' # <<>> =>
          /\ commits = <<>>
          /\ Len(commits') = 1
          /\ pc = "loop"
          /\ pc' = "exited"]_vars

\* A commit by a successful edit, after one regenerate.
C27_Witness ==
    /\ Len(commits) = 1
    /\ lastChoice = Chars("e")
    /\ nRegen = 1
    /\ nInputs = 2
    /\ pc = "exited"
    /\ exitCode = 0

\* C28: with --oneline every provider call of the run is made with
\* oneline=True, the first generation and every regenerate.
C28_OnelineOnEveryCall ==
    args.oneline => \A k \in 1..Len(providerCalls) : providerCalls[k].oneline

----------------------------------------------------------------------------
(* cli.run_multi_commit_workflow, from the call in main                     *)

\* The largest number of commits analyze_diff_for_commits suggests.
MaxSuggestions == 2

\* The 'description' values of the suggested commits.
Descriptions == { Chars("docs"), Chars("fix") }

\* What provider.analyze_diff_for_commits(staged_diff) can do: return a list
\* of suggestions, an empty one included, or raise.
AnalyzeOutcomes ==
    [kind : {"returns"},
     list : UNION { [1..n -> Descriptions] : n \in 0..MaxSuggestions }]
    \cup [kind : {"raises"}, list : {<<>>}]

\* What the user types at the split/summarize/quit prompt.
MultiChoiceInputs == { Chars("s"), Chars("S"), Chars("u"), Chars("q"), Chars("x") }

\* prompt_for_llm of handle_split_commits.
split_prompt(description, diff) ==
    Chars("Generate a commit message for the following change: ")
        \o description \o Chars("\n\nGIT DIFF:\n") \o diff

\* Whether the callable bound to provider.generate_commit_message takes the
\* keyword argument oneline: the method of the provider does, the
\* replacement `lambda diff: ...` of handle_split_commits does not, and a call
\* with oneline= then raises TypeError.
AcceptsOneline(method) == method = "original"

\* main has called setup_provider for the default Ollama provider, with the
\* endpoint taken from CHAT_URL, and is about to call
\* run_multi_commit_workflow(provider, staged_diff).
InitMulti ==
    /\ script = "cli"
    /\ args \in [provider : {"ollama"}, model : {""}, multi_commit : {TRUE},
                 oneline : BOOLEAN, set_model : {""}]
    /\ env = [CHAT_URL |-> "http://env.endpoint", API_KEY |-> <<>>]
    /\ configFile = [kind |-> "missing", model |-> ""]
    /\ pc = "multi"
    /\ exitCode = -1
    /\ gitResult = [kind |-> "ok", stdout |-> Chars("diff --git a/f b/f\n+x\n"),
                    returncode |-> 0, stderr |-> Chars("")]
    /\ stagedDiff = FilterDiff(gitResult.stdout)
    /\ scanned = TRUE
    /\ credAnswer = None
    /\ provider = [name |-> "ollama", model |-> DEFAULT_MODEL,
                   endpoint |-> env.CHAT_URL]
    /\ configWrites = << PairWrite("ollama", DEFAULT_MODEL) >>
    /\ printed = Say([t \in Tags |-> 0], "saved_pair")
    /\ setupInputs = NoSetupInputs
    /\ suggestedMessage = None
    /\ displayed = None
    /\ lastChoice = None
    /\ nInputs = 0
    /\ nRegen = 0
    /\ providerCalls = <<>>
    /\ lastOutcome = NoOutcome
    /\ commits = <<>>
    /\ edit = NoEdit
    /\ MultiIdle
    /\ SpinnerIdle
    /\ CleanIdle
    /\ DiffIdle
    /\ OpenAIIdle
    /\ EnvFileIdle

\* suggested_commits = provider.analyze_diff_for_commits(staged_diff); an
\* empty result falls back to the single message, otherwise the suggestions
\* are listed.
AnalyzeDiff ==
    /\ pc = "multi"
    /\ nAnalyze' = nAnalyze + 1
    /\ \E o \in AnalyzeOutcomes :
          IF o.kind = "raises"
          THEN Crash(printed) /\ UNCHANGED suggestedCommits
          ELSE /\ suggestedCommits' = o.list
               /\ UNCHANGED exitCode
               /\ IF o.list = <<>>
                  THEN /\ printed' = Say(printed, "no_splits")
                       /\ pc' = "multi_generate"
                  ELSE /\ printed' = Say(printed, "suggested_splits")
                       /\ pc' = "multi_menu"
    /\ UNCHANGED << script, args, env, configFile, stagedDiff, scanned, provider,
                    suggestedMessage, displayed, lastChoice, nInputs, nRegen,
                    providerCalls, lastOutcome, commits, configWrites, edit,
                    setupInputs, gitResult, credAnswer, multiChoice, splitIndex,
                    providerMethod, spinnerVars, pureVars >>

\* suggested_message = generate_commit_message(provider, staged_diff) of the
\* fallback and of handle_summarize_commit: no oneline is passed.
MultiGenerate ==
    /\ pc = "multi_generate"
    /\ \E o \in OutcomesOf(script) : Generate(printed, FALSE, o)
    /\ UNCHANGED << script, args, env, configFile, stagedDiff, scanned, provider,
                    displayed, lastChoice, nInputs, nRegen, commits,
                    configWrites, edit, setupInputs, flowVars, pureVars >>

\* The head of a round of the split/summarize/quit loop.
ReadMultiChoice(typed) ==
    /\ pc = "multi_menu"
    /\ nInputs < MaxInputs
    /\ nInputs' = nInputs + 1
    /\ multiChoice' = Lower(typed)

\* choice == 's': handle_split_commits starts with the first suggestion.
ChooseSplit ==
    /\ \E typed \in MultiChoiceInputs :
          /\ Lower(typed) = Chars("s")
          /\ ReadMultiChoice(typed)
    /\ pc' = "split"
    /\ splitIndex' = 1
    /\ UNCHANGED << script, args, env, configFile, exitCode, stagedDiff, scanned,
                    provider, suggestedMessage, displayed, lastChoice, nRegen,
                    providerCalls, lastOutcome, commits, configWrites, edit,
                    printed, setupInputs, gitResult, credAnswer,
                    suggestedCommits, providerMethod, nAnalyze, spinnerVars,
                    pureVars >>

\* One suggestion of handle_split_commits: build the prompt, replace
\* provider.generate_commit_message by the lambda, call
\* generate_commit_message (which calls the provider with oneline=), restore
\* the method if that returned, print the message, wait for Enter, commit.
\* An exception of the generation skips the restore and leaves main.
SplitSuggestion ==
    /\ pc = "split"
    /\ LET prompt_for_llm == split_prompt(suggestedCommits[splitIndex], stagedDiff)
           overridden == "split_prompt"
       IN  IF ~AcceptsOneline(overridden)
           THEN /\ providerMethod' = overridden
                /\ Crash(printed)
                /\ UNCHANGED << providerCalls, lastOutcome, suggestedMessage,
                                nInputs, commits, splitIndex >>
           ELSE \E o \in OutcomesOf(script) :
                  LET g == cli_generate_commit_message(o)
                  IN  /\ providerCalls' = Append(providerCalls,
                              [diff |-> prompt_for_llm, oneline |-> FALSE,
                               model |-> provider.model])
                      /\ lastOutcome' = o
                      /\ IF g.kind = "raises"
                         THEN /\ providerMethod' = overridden
                              /\ Crash(SayGenerate(printed, o))
                              /\ UNCHANGED << suggestedMessage, nInputs, commits,
                                              splitIndex >>
                         ELSE /\ providerMethod' = "original"
                              /\ suggestedMessage' = g.message
                              /\ nInputs < MaxInputs
                              /\ nInputs' = nInputs + 1
                              /\ commits' = Append(commits, g.message)
                              /\ \E git \in CommitOutcomes :
                                    IF git = "fails"
                                    THEN /\ printed' = Say(Say(printed, "split_message"),
                                                           "commit_error")
                                         /\ Exit(1)
                                         /\ UNCHANGED splitIndex
                                    ELSE /\ printed' = Say(Say(printed, "split_message"),
                                                           "commit_ok")
                                         /\ IF splitIndex < Len(suggestedCommits)
                                            THEN /\ splitIndex' = splitIndex + 1
                                                 /\ UNCHANGED << pc, exitCode >>
                                            ELSE Exit(0) /\ UNCHANGED splitIndex
    /\ UNCHANGED << script, args, env, configFile, stagedDiff, scanned, provider,
                    displayed, lastChoice, nRegen, configWrites, edit,
                    setupInputs, gitResult, credAnswer, suggestedCommits,
                    multiChoice, nAnalyze, spinnerVars, pureVars >>

\* choice == 'u': handle_summarize_commit.
ChooseSummarize ==
    /\ \E typed \in MultiChoiceInputs :
          /\ Lower(typed) = Chars("u")
          /\ ReadMultiChoice(typed)
    /\ pc' = "multi_generate"
    /\ UNCHANGED << script, args, env, configFile, exitCode, stagedDiff, scanned,
                    provider, suggestedMessage, displayed, lastChoice, nRegen,
                    providerCalls, lastOutcome, commits, configWrites, edit,
                    printed, setupInputs, gitResult, credAnswer,
                    suggestedCommits, splitIndex, providerMethod, nAnalyze,
                    spinnerVars, pureVars >>

\* choice == 'q': print and leave; main returns.
ChooseMultiQuit ==
    /\ \E typed \in MultiChoiceInputs :
          /\ Lower(typed) = Chars("q")
          /\ ReadMultiChoice(typed)
    /\ printed' = Say(printed, "aborted")
    /\ Exit(0)
    /\ UNCHANGED << script, args, env, configFile, stagedDiff, scanned,
                    provider, suggestedMessage, displayed, lastChoice, nRegen,
                    providerCalls, lastOutcome, commits, configWrites, edit,
                    setupInputs, gitResult, credAnswer,
                    suggestedCommits, splitIndex, providerMethod, nAnalyze,
                    spinnerVars, pureVars >>

\* any other choice: print and ask again.
ChooseMultiInvalid ==
    /\ \E typed \in MultiChoiceInputs :
          /\ Lower(typed) \notin {Chars("s"), Chars("u"), Chars("q")}
          /\ ReadMultiChoice(typed)
    /\ printed' = Say(printed, "invalid_choice")
    /\ UNCHANGED << script, args, env, configFile, pc, exitCode, stagedDiff,
                    scanned, provider, suggestedMessage, displayed, lastChoice,
                    nRegen, providerCalls, lastOutcome, commits, configWrites,
                    edit, setupInputs, gitResult, credAnswer,
                    suggestedCommits, splitIndex, providerMethod, nAnalyze,
                    spinnerVars, pureVars >>

NextMulti ==
    \/ AnalyzeDiff
    \/ MultiGenerate
    \/ ChooseSplit
    \/ SplitSuggestion
    \/ ChooseSummarize
    \/ ChooseMultiQuit
    \/ ChooseMultiInvalid
    \/ ChooseApply
    \/ ChooseEdit
    \/ ChooseRegenerate
    \/ ChooseQuit
    \/ ChooseInvalid

SpecMulti == InitMulti /\ [][NextMulti]_vars

----------------------------------------------------------------------------
(* Properties of the multi-commit workflow (checked under SpecMulti)        *)

\* The run is over and neither git commit nor the provider failed.
SplitRanThrough ==
    /\ multiChoice = Chars("s")
    /\ pc = "exited"
    /\ printed["commit_error"] = 0
    /\ lastOutcome.kind \notin {"returns_none", "raises"}

\* C25: after split, a run in which the provider and git commit do not fail
\* has made one provider call and one commit per suggested commit, in list
\* order, each call with the prompt of its suggestion; after quit there is no
\* provider call and no commit.
C25_SplitCommitsEachSuggestion ==
    /\ SplitRanThrough =>
           /\ Len(providerCalls) = Len(suggestedCommits)
           /\ Len(commits) = Len(suggestedCommits)
           /\ \A k \in 1..Len(providerCalls) :
                  providerCalls[k].diff = split_prompt(suggestedCommits[k], stagedDiff)
    /\ multiChoice = Chars("q") => providerCalls = <<>> /\ commits = <<>>

\* C30: outside the handling of one suggestion, and so whenever
\* handle_split_commits has been left, provider.generate_commit_message is
\* the original method.
C30_OverrideIsTemporary ==
    providerMethod = "original"

----------------------------------------------------------------------------
(* One generation with its spinner, thread by thread                        *)

\* The number of passes over "|/-\\" a spinner makes at most before the main
\* thread sets its stop flag.
MaxPasses == 2

\* The frames of one pass: len("|/-\\").
SpinnerFrames == 4

\* The thread is started and has not returned from spinner_animation.
Alive(t) == spinner[t].state = "alive"

\* The generation is called from main or handle_user_choice ("single") or
\* for one suggestion of handle_split_commits ("split").
InitSpinner ==
    /\ script = "cli"
    /\ args = [provider |-> "ollama", model |-> "", multi_commit |-> FALSE,
               oneline |-> FALSE, set_model |-> ""]
    /\ env = [CHAT_URL |-> "", API_KEY |-> <<>>]
    /\ configFile = [kind |-> "missing", model |-> ""]
    /\ BaseIdle
    /\ flow \in {"single", "split"}
    /\ tpc = IF flow = "single" THEN "g_start" ELSE "s_start"
    /\ spinner = [t \in Slots |-> NoThread]
    /\ genOutcome = "none"
    /\ genLeft = "no"
    /\ shown = FALSE
    /\ CleanIdle
    /\ DiffIdle
    /\ OpenAIIdle
    /\ EnvFileIdle

\* What the steps of the two threads leave alone.
spinnerFrame ==
    << scriptVars, gitResult, credAnswer, suggestedCommits, multiChoice,
       splitIndex, nAnalyze, flow, pureVars >>

\* handle_split_commits: stop_spinner = threading.Event(); spinner_thread =
\* threading.Thread(...); spinner_thread.start()
SplitStartSpinner ==
    /\ tpc = "s_start"
    /\ spinner' = [spinner EXCEPT !["outer"].state = "alive"]
    /\ tpc' = "s_override"
    /\ UNCHANGED << spinnerFrame, providerMethod, genOutcome, genLeft, shown >>

\* handle_split_commits: provider.generate_commit_message = lambda diff: ...
SplitOverride ==
    /\ tpc = "s_override"
    /\ providerMethod' = "split_prompt"
    /\ tpc' = "g_start"
    /\ UNCHANGED << spinnerFrame, spinner, genOutcome, genLeft, shown >>

\* generate_commit_message: the event and the thread are made and the thread
\* is started, before the try statement.
GenStartSpinner ==
    /\ tpc = "g_start"
    /\ spinner' = [spinner EXCEPT !["inner"].state = "alive"]
    /\ tpc' = "g_call"
    /\ UNCHANGED << spinnerFrame, providerMethod, genOutcome, genLeft, shown >>

\* suggested_message = provider.generate_commit_message(staged_diff,
\* oneline=oneline): TypeError when the bound callable takes no oneline,
\* else whatever the provider does.
GenProviderCall ==
    /\ tpc = "g_call"
    /\ \E o \in ProviderOutcomes :
          genOutcome' = IF AcceptsOneline(providerMethod) THEN o.kind
                        ELSE "TypeError"
    /\ tpc' = IF genOutcome' \in {"reply", "returns_none"} THEN "g_clean"
              ELSE "g_set"
    /\ UNCHANGED << spinnerFrame, providerMethod, spinner, genLeft, shown >>

\* return clean_commit_message(suggested_message): TypeError for None.
GenClean ==
    /\ tpc = "g_clean"
    /\ genOutcome' = IF genOutcome = "reply" THEN "cleaned" ELSE "TypeError"
    /\ tpc' = "g_set"
    /\ UNCHANGED << spinnerFrame, providerMethod, spinner, genLeft, shown >>

\* finally: stop_spinner.set()
GenSetStop ==
    /\ tpc = "g_set"
    /\ spinner' = [spinner EXCEPT !["inner"].stop = TRUE]
    /\ tpc' = "g_join"
    /\ UNCHANGED << spinnerFrame, providerMethod, genOutcome, genLeft, shown >>

\* Where the main thread goes when generate_commit_message is left.
AfterGenerate(left) ==
    IF flow = "split" THEN "s_leave_try"
    ELSE IF left = "returned" THEN "show" ELSE "crashed"

\* Mutant: the function is left without waiting for the thread.
GenJoin_no_wait ==
    /\ tpc = "g_join"
    /\ genLeft' = IF genOutcome = "cleaned" THEN "returned" ELSE "raised"
    /\ tpc' = AfterGenerate(genLeft')
    /\ UNCHANGED << spinnerFrame, providerMethod, spinner, genOutcome, shown >>

\* finally: spinner_thread.join() returns when the thread has ended; then
\* the function returns the message or the exception goes on.
GenJoin ==
    /\ tpc = "g_join"
    /\ spinner["inner"].state = "finished"
    /\ genLeft' = IF genOutcome = "cleaned" THEN "returned" ELSE "raised"
    /\ tpc' = AfterGenerate(genLeft')
    /\ UNCHANGED << spinnerFrame, providerMethod, spinner, genOutcome, shown >>

\* handle_split_commits: after a returned generation the method is
\* restored; an exception skips that line; finally: stop_spinner.set()
SplitLeaveTry ==
    /\ tpc = "s_leave_try"
    /\ providerMethod' = IF genLeft = "returned" THEN "original"
                         ELSE providerMethod
    /\ spinner' = [spinner EXCEPT !["outer"].stop = TRUE]
    /\ tpc' = "s_join"
    /\ UNCHANGED << spinnerFrame, genOutcome, genLeft, shown >>

\* handle_split_commits: finally: spinner_thread.join()
SplitJoin ==
    /\ tpc = "s_join"
    /\ spinner["outer"].state = "finished"
    /\ tpc' = IF genLeft = "returned" THEN "show" ELSE "crashed"
    /\ UNCHANGED << spinnerFrame, providerMethod, spinner, genOutcome, genLeft,
                    shown >>

\* The caller prints the suggested message.
ShowMessage ==
    /\ tpc = "show"
    /\ shown' = TRUE
    /\ tpc' = "done"
    /\ UNCHANGED << spinnerFrame, providerMethod, spinner, genOutcome, genLeft >>

\* A write of thread t to stdout, remembered when it comes after
\* generate_commit_message was left or after the message was shown.
Written(t) ==
    [spinner[t] EXCEPT !.late = @ \/ genLeft # "no",
                       !.afterShown = @ \/ shown]

\* spinner_animation: while not stop_event.is_set()
SpinnerTest(t) ==
    /\ Alive(t)
    /\ spinner[t].at = "test"
    /\ IF spinner[t].stop
       THEN spinner' = [spinner EXCEPT ![t].at = "clear"]
       ELSE /\ spinner[t].passes < MaxPasses
            /\ spinner' = [spinner EXCEPT ![t].at = "frame", ![t].frame = 0]
    /\ UNCHANGED << spinnerFrame, providerMethod, tpc, genOutcome, genLeft, shown >>

\* spinner_animation: one frame of the for loop: write, flush, sleep.
SpinnerFrame(t) ==
    /\ Alive(t)
    /\ spinner[t].at = "frame"
    /\ LET w == Written(t)
       IN  spinner' = [spinner EXCEPT ![t] =
               IF w.frame + 1 = SpinnerFrames
               THEN [w EXCEPT !.at = "test", !.frame = 0, !.passes = @ + 1]
               ELSE [w EXCEPT !.frame = @ + 1]]
    /\ UNCHANGED << spinnerFrame, providerMethod, tpc, genOutcome, genLeft, shown >>

\* spinner_animation: the line is cleared and the thread ends.
SpinnerClear(t) ==
    /\ Alive(t)
    /\ spinner[t].at = "clear"
    /\ spinner' = [spinner EXCEPT ![t] = [Written(t) EXCEPT !.state = "finished"]]
    /\ UNCHANGED << spinnerFrame, providerMethod, tpc, genOutcome, genLeft, shown >>

SpinnerThread(t) == SpinnerTest(t) \/ SpinnerFrame(t) \/ SpinnerClear(t)

NextSpinner ==
    \/ SplitStartSpinner
    \/ SplitOverride
    \/ GenStartSpinner
    \/ GenProviderCall
    \/ GenClean
    \/ GenSetStop
    \/ GenJoin
    \/ SplitLeaveTry
    \/ SplitJoin
    \/ ShowMessage
    \/ \E t \in Slots : SpinnerTest(t)
    \/ \E t \in Slots : SpinnerFrame(t)
    \/ \E t \in Slots : SpinnerClear(t)

\* A started thread is scheduled again and again and time.sleep returns.
SpecSpinner ==
    /\ InitSpinner
    /\ [][NextSpinner]_vars
    /\ \A t \in Slots : WF_vars(SpinnerThread(t))

----------------------------------------------------------------------------
(* Properties of the spinner (checked under SpecSpinner)                    *)

\* When generate_commit_message has been left, by return or by exception,
\* the flag of its thread is set, the thread has ended and it has written
\* nothing since; no spinner writes after the message is shown.
SpinnerGoneWhenLeft ==
    /\ genLeft # "no" =>
           /\ spinner["inner"].stop
           /\ spinner["inner"].state = "finished"
    /\ ~spinner["inner"].late
    /\ \A t \in Slots : ~spinner[t].afterShown
    /\ shown => \A t \in Slots : ~Alive(t)

\* C24: cli.generate_commit_message sets the stop flag and joins its spinner
\* thread on every exit path, so when it returns or raises its thread is not
\* alive and writes nothing afterwards, nothing is written by a spinner after
\* the suggested message is shown, and a thread whose flag is set terminates.
C24_SpinnerStoppedAndJoined ==
    /\ []SpinnerGoneWhenLeft
    /\ spinner["inner"].stop ~> (spinner["inner"].state = "finished")

\* The function was left by an exception after the thread had made a pass.
C24_Witness ==
    /\ genLeft = "raised"
    /\ flow = "single"
    /\ spinner["inner"].state = "finished"
    /\ spinner["inner"].passes >= 1

\* C29: at every moment at most one spinner thread is alive, in the
\* single-message flow and in the split flow.
C29_AtMostOneSpinnerAlive ==
    Cardinality({t \in Slots : Alive(t)}) <= 1

====
